---- MODULE Spec2Model ----
(***************************************************************************)
(* AI-CFO: the financial-metrics pipeline of FinancialAnalysisService.     *)
(* process_financial_data (src/backend/services.py) over a FinancialData   *)
(* dataset (src/app/models.py), as a state machine.                        *)
(*                                                                         *)
(* Text is a sequence of one-character strings, so that the substring      *)
(* tests of the column resolver and of the category keyword masks are      *)
(* computed, not tabulated.  A cell of the table is a record               *)
(*   [t |-> "num" | "nan" | "str" | "date", n |-> Int, s |-> text]         *)
(* n is the number of a "num" cell and the day number of a "date" cell     *)
(* (100 * month index + day of month); s is the text of a "str" cell.      *)
(* Money is integer; ratios are kept as exact fractions and compared by    *)
(* cross-multiplication.                                                   *)
(***************************************************************************)
EXTENDS Integers, Sequences, FiniteSets, TLC

VARIABLES
    pc,               \* position inside process_financial_data
    src_cols,         \* the header row of the uploaded file
    src_rows,         \* the rows of the uploaded file
    cols,             \* financial_data.df.columns
    rows,             \* financial_data.df rows, each parallel to cols
    cash_flow,        \* result of get_cash_flow()
    profitability,    \* result of get_profitability()
    cash_flow_trend,  \* result of get_cash_flow_trend()
    health_score,     \* result of get_financial_health_score()
    anomalies,        \* result of detect_anomalies()
    user_industry,    \* the industry code of the request
    business_size,    \* the business-size code of the request
    benchmark_comparison, \* result of BenchmarkAnalysis.compare_to_industry
    ai_insights,      \* result of generate_insights
    recommendations,  \* result of generate_recommendations
    alerts,           \* result of create_financial_alerts
    report,           \* what process_financial_data returns
    exported,         \* what export_analysis returns for the report
    workers,          \* the concurrent invocations, each with what it holds
    benchmark_table,  \* BenchmarkAnalysis.INDUSTRY_BENCHMARKS, shared by them
    anomalies_again,  \* result of a second detect_anomalies() on the data frame
    cash_flow_again,  \* result of the get_cash_flow() a later step calls again
    gemini            \* the call of a GeminiFinancialAnalyzer function under way

vars == <<pc, src_cols, src_rows, cols, rows, cash_flow, profitability,
          cash_flow_trend, health_score, anomalies, user_industry,
          business_size, benchmark_comparison, ai_insights, recommendations,
          alerts, report, exported,
          workers, benchmark_table, anomalies_again, cash_flow_again, gemini>>

----------------------------------------------------------------------------
(* Bounds of the model *)

\* free rows in front of the repeated filler row
MaxRows == 2
\* largest number of copies of the filler row
MaxBulk == 12

----------------------------------------------------------------------------
(* Text *)

UpperAlpha == <<"A","B","C","D","E","F","G","H","I","J","K","L","M",
                "N","O","P","Q","R","S","T","U","V","W","X","Y","Z">>
LowerAlpha == <<"a","b","c","d","e","f","g","h","i","j","k","l","m",
                "n","o","p","q","r","s","t","u","v","w","x","y","z">>
DigitChars == <<"0","1","2","3","4","5","6","7","8","9">>

\* str.lower() on one character
LowerChar(c) ==
    IF \E i \in 1..Len(UpperAlpha) : UpperAlpha[i] = c
    THEN LowerAlpha[CHOOSE i \in 1..Len(UpperAlpha) : UpperAlpha[i] = c]
    ELSE c

\* str.lower()
Lower(s) == [i \in 1..Len(s) |-> LowerChar(s[i])]

\* str.strip(): leading and trailing blanks removed
RECURSIVE Strip(_)
Strip(s) ==
    IF s = <<>> THEN s
    ELSE IF Head(s) = " " THEN Strip(Tail(s))
    ELSE IF s[Len(s)] = " " THEN Strip(SubSeq(s, 1, Len(s) - 1))
    ELSE s

\* str.replace(' ', '_')
ReplaceBlank(s) == [i \in 1..Len(s) |-> IF s[i] = " " THEN "_" ELSE s[i]]

\* Python's  sub in s
Contains(sub, s) ==
    \E i \in 0..(Len(s) - Len(sub)) : SubSeq(s, i + 1, i + Len(sub)) = sub

\* any(var in col for var in variations); str.contains('|'.join(keywords))
ContainsAny(keywords, s) ==
    \E k \in 1..Len(keywords) : Contains(keywords[k], s)

\* the canonical column names
c_revenue  == <<"r","e","v","e","n","u","e">>
c_expenses == <<"e","x","p","e","n","s","e","s">>
c_date     == <<"d","a","t","e">>
c_amount   == <<"a","m","o","u","n","t">>
c_category == <<"c","a","t","e","g","o","r","y">>
c_income   == <<"i","n","c","o","m","e">>
c_costs    == <<"c","o","s","t","s">>
c_month    == <<"m","o","n","t","h">>

\* column_mapping of _standardize_columns, in its iteration order
column_mapping == <<
    [name |-> c_revenue,
     variations |-> << <<"s","a","l","e","s">>, c_income,
                       <<"t","u","r","n","o","v","e","r">>,
                       <<"g","r","o","s","s","_","s","a","l","e","s">> >>],
    [name |-> c_expenses,
     variations |-> << c_costs,
                       <<"e","x","p","e","n","d","i","t","u","r","e">>,
                       <<"o","u","t","g","o","i","n","g","s">>,
                       <<"s","p","e","n","d","i","n","g">> >>],
    [name |-> c_date,
     variations |-> << <<"t","r","a","n","s","a","c","t","i","o","n","_","d","a","t","e">>,
                       <<"p","e","r","i","o","d">>, c_month,
                       <<"t","i","m","e">> >>],
    [name |-> c_amount,
     variations |-> << <<"v","a","l","u","e">>, <<"s","u","m">>,
                       <<"t","o","t","a","l">> >>],
    [name |-> c_category,
     variations |-> << <<"t","y","p","e">>,
                       <<"d","e","s","c","r","i","p","t","i","o","n">>,
                       <<"a","c","c","o","u","n","t">>,
                       <<"c","l","a","s","s","i","f","i","c","a","t","i","o","n">> >>] >>

\* income_keywords of _ensure_income_expenses and get_cash_flow
income_keywords == << c_income, c_revenue, <<"s","a","l","e","s">>,
                      <<"r","e","c","e","i","v","a","b","l","e">>,
                      <<"d","e","p","o","s","i","t">> >>

\* expense_keywords of _ensure_income_expenses and get_cash_flow
expense_keywords == << <<"e","x","p","e","n","s","e">>, <<"c","o","s","t">>,
                       <<"p","a","y","m","e","n","t">>, <<"b","i","l","l">>,
                       <<"p","a","y","a","b","l","e">>,
                       <<"p","u","r","c","h","a","s","e">> >>

----------------------------------------------------------------------------
(* Cells *)

Num(n)    == [t |-> "num",  n |-> n, s |-> <<>>]
NaN       == [t |-> "nan",  n |-> 0, s |-> <<>>]
Str(s)    == [t |-> "str",  n |-> 0, s |-> s]
Date(m, d) == [t |-> "date", n |-> 100 * m + d, s |-> <<>>]

\* the calendar month of a parsed date
MonthOf(cell) == cell.n \div 100

\* the characters the regex [$,...] of _clean_data removes
CurrencyChars == {"$", ","}

\* str.replace(r'[$,...]', '', regex=True)
RECURSIVE StripCurrency(_)
StripCurrency(s) ==
    IF s = <<>> THEN s
    ELSE IF Head(s) \in CurrencyChars THEN StripCurrency(Tail(s))
    ELSE <<Head(s)>> \o StripCurrency(Tail(s))

IsDigit(c) == \E i \in 1..Len(DigitChars) : DigitChars[i] = c
DigitVal(c) == (CHOOSE i \in 1..Len(DigitChars) : DigitChars[i] = c) - 1

RECURSIVE DigitsValue(_, _)
DigitsValue(s, acc) ==
    IF s = <<>> THEN acc ELSE DigitsValue(Tail(s), 10 * acc + DigitVal(Head(s)))

AllDigits(s) == s # <<>> /\ \A i \in 1..Len(s) : IsDigit(s[i])

\* pd.to_numeric(errors='coerce') on the text of a cell: an optionally
\* signed run of digits is its number, any other text is NaN
ToNumericText(s) ==
    IF AllDigits(s) THEN Num(DigitsValue(s, 0))
    ELSE IF s # <<>> /\ Head(s) = "-" /\ AllDigits(Tail(s))
         THEN Num(0 - DigitsValue(Tail(s), 0))
    ELSE NaN

\* astype(str), the currency strip and pd.to_numeric on one cell: a number
\* prints and parses back to itself, NaN prints as 'nan' and parses to NaN
CleanNumeric(cell) ==
    IF cell.t = "num" THEN cell
    ELSE IF cell.t = "str" THEN ToNumericText(StripCurrency(cell.s))
    ELSE NaN

\* pd.to_datetime(errors='coerce') on one cell of a text column
ParseDate(cell) == IF cell.t = "date" THEN cell ELSE NaN

----------------------------------------------------------------------------
(* Data frame helpers *)

HasCol(cs, name) == \E i \in 1..Len(cs) : cs[i] = name
ColCount(cs, name) == Cardinality({i \in 1..Len(cs) : cs[i] = name})
ColIdx(cs, name) == CHOOSE i \in 1..Len(cs) : cs[i] = name

\* df[name] for one row
Cell(cs, row, name) == row[ColIdx(cs, name)]

\* the rows whose position is in keep, in their order (a boolean row filter)
RECURSIVE KeepRows(_, _, _)
KeepRows(rs, keep, i) ==
    IF i > Len(rs) THEN <<>>
    ELSE (IF i \in keep THEN <<rs[i]>> ELSE <<>>) \o KeepRows(rs, keep, i + 1)

RECURSIVE SumSeq(_)
SumSeq(xs) == IF xs = <<>> THEN 0 ELSE Head(xs) + SumSeq(Tail(xs))

\* df[name].sum(): NaN cells are skipped
ColSum(cs, rs, name) ==
    SumSeq([i \in 1..Len(rs) |->
              IF Cell(cs, rs[i], name).t = "num" THEN Cell(cs, rs[i], name).n ELSE 0])

\* df[name] = values, appended as a new last column
AddCol(cs, rs, name, value(_)) ==
    [cols |-> Append(cs, name),
     rows |-> [i \in 1..Len(rs) |-> Append(rs[i], value(i))]]

----------------------------------------------------------------------------
(* FinancialData.__init__: schema normalisation *)

\* self.df.columns.str.strip().str.lower().str.replace(' ', '_')
NormalizeHeader(h) == ReplaceBlank(Lower(Strip(h)))

\* one iteration of the outer loop of _standardize_columns: the first column
\* whose name contains a variation is renamed (with every column of the same
\* name) and the inner loop breaks
RenamePass(cs, entry) ==
    LET hits == {i \in 1..Len(cs) : ContainsAny(entry.variations, cs[i])}
    IN  IF hits = {} THEN cs
        ELSE LET first == CHOOSE i \in hits : \A j \in hits : i <= j
                 old   == cs[first]
             IN  [j \in 1..Len(cs) |-> IF cs[j] = old THEN entry.name ELSE cs[j]]

RECURSIVE RenameFrom(_, _)
RenameFrom(cs, k) ==
    IF k > Len(column_mapping) THEN cs
    ELSE RenameFrom(RenamePass(cs, column_mapping[k]), k + 1)

\* _standardize_columns
standardize_columns(cs) == RenameFrom(cs, 1)

\* Series.str on df[name]: raises AttributeError when df[name] is a frame
\* (duplicated name) or a column holding no text at all
StrAccessorFails(cs, rs, name) ==
    \/ ColCount(cs, name) > 1
    \/ /\ Len(rs) > 0
       /\ \A i \in 1..Len(rs) : Cell(cs, rs[i], name).t # "str"

\* df['category'].str.lower().str.contains('|'.join(keywords), na=False)
KeywordMask(cs, rs, keywords) ==
    {i \in 1..Len(rs) :
        /\ Cell(cs, rs[i], c_category).t = "str"
        /\ ContainsAny(keywords, Lower(Cell(cs, rs[i], c_category).s))}

\* df.loc[mask, name] = df.loc[mask, 'amount']: the column is created, NaN
\* outside the mask
DeriveFromAmount(cs, rs, name, keywords) ==
    LET mask == KeywordMask(cs, rs, keywords)
        value(i) == IF i \in mask THEN Cell(cs, rs[i], c_amount) ELSE NaN
    IN  AddCol(cs, rs, name, value)

Frame(cs, rs) == [raised |-> FALSE, cols |-> cs, rows |-> rs]
Raised(cs, rs) == [raised |-> TRUE, cols |-> cs, rows |-> rs]

\* _ensure_income_expenses, lines 45-46
ensure_income_from_revenue(cs, rs) ==
    IF HasCol(cs, c_revenue) /\ ~HasCol(cs, c_income)
    THEN IF ColCount(cs, c_revenue) > 1 THEN Raised(cs, rs)
         ELSE LET value(i) == Cell(cs, rs[i], c_revenue)
                  f == AddCol(cs, rs, c_income, value)
              IN  Frame(f.cols, f.rows)
    ELSE Frame(cs, rs)

\* _ensure_income_expenses, lines 48-57, one of its two inner branches
ensure_derived(cs, rs, name, keywords) ==
    IF HasCol(cs, c_amount) /\ HasCol(cs, c_category) /\ ~HasCol(cs, name)
    THEN IF StrAccessorFails(cs, rs, c_category) \/ ColCount(cs, c_amount) > 1
         THEN Raised(cs, rs)
         ELSE LET f == DeriveFromAmount(cs, rs, name, keywords)
              IN  Frame(f.cols, f.rows)
    ELSE Frame(cs, rs)

\* _ensure_income_expenses with the expense mask taken over the rows the
\* income mask left
ensure_income_expenses_exclusive(cs, rs) ==
    LET a == ensure_income_from_revenue(cs, rs)
        b == IF a.raised THEN a ELSE ensure_derived(a.cols, a.rows, c_income, income_keywords)
        left == KeywordMask(b.cols, b.rows, expense_keywords)
                   \ KeywordMask(b.cols, b.rows, income_keywords)
        value(i) == IF i \in left THEN Cell(b.cols, b.rows[i], c_amount) ELSE NaN
    IN  IF b.raised THEN b
        ELSE IF HasCol(b.cols, c_amount) /\ HasCol(b.cols, c_category)
                /\ ~HasCol(b.cols, c_expenses)
             THEN IF StrAccessorFails(b.cols, b.rows, c_category)
                     \/ ColCount(b.cols, c_amount) > 1
                  THEN Raised(b.cols, b.rows)
                  ELSE Frame(AddCol(b.cols, b.rows, c_expenses, value).cols,
                             AddCol(b.cols, b.rows, c_expenses, value).rows)
             ELSE Frame(b.cols, b.rows)

\* _ensure_income_expenses
ensure_income_expenses(cs, rs) ==
    LET a == ensure_income_from_revenue(cs, rs)
        b == IF a.raised THEN a ELSE ensure_derived(a.cols, a.rows, c_income, income_keywords)
        c == IF b.raised THEN b ELSE ensure_derived(b.cols, b.rows, c_expenses, expense_keywords)
    IN  c

\* the exception _ensure_income_expenses raises: assigning the frame
\* df['revenue'] of a duplicated name to one column is a ValueError, .str on
\* a frame or on a column without text an AttributeError
ensure_error_type(cs, rs) ==
    IF ensure_income_from_revenue(cs, rs).raised THEN "ValueError"
    ELSE "AttributeError"

\* numerical_cols of _clean_data
numerical_cols == <<c_amount, c_revenue, c_expenses, c_income>>

PresentNumerical(cs) ==
    {k \in 1..Len(numerical_cols) : HasCol(cs, numerical_cols[k])}

\* _clean_data, lines 62-65: the date column parsed
clean_dates(cs, rs) ==
    IF HasCol(cs, c_date)
    THEN [i \in 1..Len(rs) |->
            [j \in 1..Len(cs) |-> IF cs[j] = c_date THEN ParseDate(rs[i][j]) ELSE rs[i][j]]]
    ELSE rs

\* the rows dropna(subset=['date']) keeps
valid_date_rows(cs, rs) ==
    IF HasCol(cs, c_date)
    THEN {i \in 1..Len(rs) : Cell(cs, rs[i], c_date).t = "date"}
    ELSE 1..Len(rs)

\* _clean_data, lines 68-73: every present numerical column coerced
clean_numbers(cs, rs) ==
    [i \in 1..Len(rs) |->
        [j \in 1..Len(cs) |->
            IF \E k \in PresentNumerical(cs) : numerical_cols[k] = cs[j]
            THEN CleanNumeric(rs[i][j]) ELSE rs[i][j]]]

\* the rows dropna(subset=[present numerical columns]) keeps (line 76):
\* dropna's default is how='any'
complete_rows(cs, rs) ==
    {i \in 1..Len(rs) :
        \A k \in PresentNumerical(cs) : Cell(cs, rs[i], numerical_cols[k]).t = "num"}

\* _clean_data
clean_data(cs, rs) ==
    IF \/ ColCount(cs, c_date) > 1
       \/ \E k \in PresentNumerical(cs) : ColCount(cs, numerical_cols[k]) > 1
    THEN Raised(cs, rs)
    ELSE LET d  == clean_dates(cs, rs)
             r1 == KeepRows(d, valid_date_rows(cs, d), 1)
             n  == clean_numbers(cs, r1)
             r2 == KeepRows(n, complete_rows(cs, n), 1)
         IN  Frame(cs, r2)

----------------------------------------------------------------------------
(* Numbers: exact fractions, with the positive-infinity sentinel *)

Fin(a, b) == [inf |-> FALSE, num |-> a, den |-> b]     \* a / b, b > 0
Inf       == [inf |-> TRUE,  num |-> 0, den |-> 1]     \* float('inf')
Zero      == Fin(0, 1)

\* r > p / q   (q > 0)
Gt(r, p, q) == IF r.inf THEN TRUE ELSE r.num * q > p * r.den
\* r < p / q   (q > 0)
Lt(r, p, q) == IF r.inf THEN FALSE ELSE r.num * q < p * r.den
\* r = p / q   (q > 0)
Eq(r, p, q) == ~r.inf /\ r.num * q = p * r.den

Abs(x) == IF x < 0 THEN 0 - x ELSE x

----------------------------------------------------------------------------
(* Monthly aggregation *)

\* the columns _create_monthly_aggregations sums (agg_dict)
agg_cols(cs) == {c \in {c_amount, c_income, c_expenses} : HasCol(cs, c)}

Months(cs, rs) == {MonthOf(Cell(cs, rs[i], c_date)) : i \in 1..Len(rs)}
MinOf(S) == CHOOSE x \in S : \A y \in S : x <= y
MaxOf(S) == CHOOSE x \in S : \A y \in S : x >= y

\* the sum of column name over the rows of calendar month m (0 when none)
MonthSum(cs, rs, name, m) ==
    SumSeq([i \in 1..Len(rs) |->
              IF MonthOf(Cell(cs, rs[i], c_date)) = m /\ Cell(cs, rs[i], name).t = "num"
              THEN Cell(cs, rs[i], name).n ELSE 0])

\* one row of set_index('date').resample('M').agg(agg_dict) with its
\* net_cash_flow (lines 296-302)
Bucket(cs, rs, m) ==
    LET has(c) == c \in agg_cols(cs)
        sum(c) == IF has(c) THEN MonthSum(cs, rs, c, m) ELSE 0
    IN  [month        |-> m,
         has_income   |-> has(c_income),
         has_expenses |-> has(c_expenses),
         income       |-> sum(c_income),
         expenses     |-> sum(c_expenses),
         amount       |-> sum(c_amount),
         net_cash_flow |->
             IF has(c_income) /\ has(c_expenses) THEN sum(c_income) - sum(c_expenses)
             ELSE IF has(c_amount) THEN sum(c_amount)
             ELSE 0]

\* _create_monthly_aggregations grouping by the months that hold rows: no
\* bucket for a month without rows
create_monthly_aggregations_of_rows(cs, rs) ==
    IF agg_cols(cs) = {} \/ rs = <<>> THEN <<>>
    ELSE LET lo == MinOf(Months(cs, rs))
             hi == MaxOf(Months(cs, rs))
             all == [k \in 1..(hi - lo + 1) |-> Bucket(cs, rs, lo + k - 1)]
         IN  KeepRows(all, {k \in 1..Len(all) : all[k].month \in Months(cs, rs)}, 1)

\* _create_monthly_aggregations: one bucket for every calendar month from the
\* first to the last date; no bucket when nothing can be summed or no row
create_monthly_aggregations(cs, rs) ==
    IF agg_cols(cs) = {} \/ rs = <<>> THEN <<>>
    ELSE LET lo == MinOf(Months(cs, rs))
             hi == MaxOf(Months(cs, rs))
         IN  [k \in 1..(hi - lo + 1) |-> Bucket(cs, rs, lo + k - 1)]

NetSeries(monthly) == [k \in 1..Len(monthly) |-> monthly[k].net_cash_flow]

\* _get_monthly_cash_flow_average
get_monthly_cash_flow_average(cs, rs) ==
    IF ~HasCol(cs, c_date) THEN Zero
    ELSE LET monthly == create_monthly_aggregations(cs, rs)
         IN  IF Len(monthly) > 0
             THEN Fin(SumSeq(NetSeries(monthly)), Len(monthly))
             ELSE Zero

\* rows below which _get_seasonal_patterns returns {} (line 316)
MinSeasonalRows == 12

\* whether _get_seasonal_patterns reaches its assignment self.df['month'] = ...
seasonal_writes_month(cs, rs) ==
    HasCol(cs, c_date) /\ Len(rs) >= MinSeasonalRows

\* _get_seasonal_patterns: the mean amount of each calendar month as
\* <<sum, count>>, the empty mapping otherwise
get_seasonal_patterns(cs, rs) ==
    IF seasonal_writes_month(cs, rs) /\ HasCol(cs, c_amount)
    THEN {<<m, MonthSum(cs, rs, c_amount, m),
            Cardinality({i \in 1..Len(rs) : MonthOf(Cell(cs, rs[i], c_date)) = m})>> :
            m \in Months(cs, rs)}
    ELSE {}

\* the data frame after _get_seasonal_patterns: the column 'month' is set
seasonal_frame(cs, rs) ==
    IF seasonal_writes_month(cs, rs)
    THEN IF HasCol(cs, c_month)
         THEN [cols |-> cs,
               rows |-> [i \in 1..Len(rs) |->
                           [j \in 1..Len(cs) |->
                               IF cs[j] = c_month
                               THEN Num(MonthOf(Cell(cs, rs[i], c_date)))
                               ELSE rs[i][j]]]]
         ELSE LET value(i) == Num(MonthOf(Cell(cs, rs[i], c_date)))
              IN  AddCol(cs, rs, c_month, value)
    ELSE [cols |-> cs, rows |-> rs]

----------------------------------------------------------------------------
(* get_cash_flow *)

NoResult == [tag |-> "none"]

\* which strategy of get_cash_flow applies
cash_flow_path(cs) ==
    IF HasCol(cs, c_income) /\ HasCol(cs, c_expenses) THEN "columns"
    ELSE IF HasCol(cs, c_amount) /\ HasCol(cs, c_category) THEN "masked"
    ELSE "none"

\* amount summed over the rows of a keyword mask
MaskedSum(cs, rs, keywords) ==
    LET mask == KeywordMask(cs, rs, keywords)
    IN  SumSeq([i \in 1..Len(rs) |->
                  IF i \in mask /\ Cell(cs, rs[i], c_amount).t = "num"
                  THEN Cell(cs, rs[i], c_amount).n ELSE 0])

cash_flow_total_income(cs, rs) ==
    IF cash_flow_path(cs) = "columns" THEN ColSum(cs, rs, c_income)
    ELSE MaskedSum(cs, rs, income_keywords)

cash_flow_total_expenses(cs, rs) ==
    IF cash_flow_path(cs) = "columns" THEN ColSum(cs, rs, c_expenses)
    ELSE MaskedSum(cs, rs, expense_keywords)

\* line 106
cash_flow_ratio(total_income, total_expenses) ==
    IF total_expenses > 0 THEN Fin(total_income, total_expenses) ELSE Inf

\* line 107
expense_ratio(total_income, total_expenses) ==
    IF total_income > 0 THEN Fin(total_expenses, total_income) ELSE Zero

\* whether get_cash_flow raises: the .str accessor of the masked strategy
cash_flow_raises(cs, rs) ==
    cash_flow_path(cs) = "masked" /\ StrAccessorFails(cs, rs, c_category)

\* the value get_cash_flow returns
get_cash_flow(cs, rs) ==
    IF cash_flow_path(cs) = "none"
    THEN [tag |-> "error", error |-> "Unable to identify income and expense columns"]
    ELSE LET total_income   == cash_flow_total_income(cs, rs)
             total_expenses == cash_flow_total_expenses(cs, rs)
         IN  [tag |-> "ok",
              net_cash_flow     |-> total_income - total_expenses,
              total_income      |-> total_income,
              total_expenses    |-> total_expenses,
              cash_flow_ratio   |-> cash_flow_ratio(total_income, total_expenses),
              expense_ratio     |-> expense_ratio(total_income, total_expenses),
              monthly_average   |-> get_monthly_cash_flow_average(cs, rs),
              seasonal_analysis |-> get_seasonal_patterns(cs, rs)]

\* the data frame get_cash_flow leaves behind
cash_flow_frame(cs, rs) ==
    IF cash_flow_path(cs) = "none" THEN [cols |-> cs, rows |-> rs]
    ELSE seasonal_frame(cs, rs)

----------------------------------------------------------------------------
(* get_profitability *)

\* the pattern 'income|revenue|sales' of _get_total_revenue
revenue_keywords == << c_income, c_revenue, <<"s","a","l","e","s">> >>
\* the pattern 'expense|cost|payment|bill' of _get_total_costs
cost_keywords == << <<"e","x","p","e","n","s","e">>, <<"c","o","s","t">>,
                    <<"p","a","y","m","e","n","t">>, <<"b","i","l","l">> >>

\* _get_total_revenue
get_total_revenue(cs, rs) ==
    IF HasCol(cs, c_revenue) THEN ColSum(cs, rs, c_revenue)
    ELSE IF HasCol(cs, c_income) THEN ColSum(cs, rs, c_income)
    ELSE IF HasCol(cs, c_amount) /\ HasCol(cs, c_category)
         THEN MaskedSum(cs, rs, revenue_keywords)
    ELSE 0

\* _get_total_costs
get_total_costs(cs, rs) ==
    IF HasCol(cs, c_costs) THEN ColSum(cs, rs, c_costs)
    ELSE IF HasCol(cs, c_expenses) THEN ColSum(cs, rs, c_expenses)
    ELSE IF HasCol(cs, c_amount) /\ HasCol(cs, c_category)
         THEN MaskedSum(cs, rs, cost_keywords)
    ELSE 0

\* whether _get_profitability_trend raises: past its two early returns it
\* reads monthly_data['income'] and monthly_data['expenses'] (KeyError when
\* the column was not aggregated) and fits a regression on the monthly margin
\* (income - expenses) / income, which is infinite (ValueError in fit) for a
\* month with no income but expenses; 0 / 0 is NaN and is filled with 0
profitability_trend_raises(cs, rs) ==
    /\ HasCol(cs, c_date)
    /\ LET monthly == create_monthly_aggregations(cs, rs)
       IN  /\ Len(monthly) >= 2
           /\ \/ ~monthly[1].has_income
              \/ ~monthly[1].has_expenses
              \/ \E k \in 1..Len(monthly) :
                    monthly[k].income = 0 /\ monthly[k].expenses # 0

\* whether get_profitability raises instead of returning
profitability_raises(cs, rs) ==
    get_total_revenue(cs, rs) > 0 /\ profitability_trend_raises(cs, rs)

\* _calculate_break_even returns its break-even record (and not its error
\* value) when the average revenue per transaction is positive and the
\* variable cost ratio is below 1
break_even_defined(cs, rs) ==
    LET revenue == get_total_revenue(cs, rs)
        costs   == get_total_costs(cs, rs)
    IN  Len(rs) > 0 /\ revenue > 0 /\ costs < revenue

\* the value get_profitability returns when it returns
get_profitability(cs, rs) ==
    LET revenue == get_total_revenue(cs, rs)
        costs   == get_total_costs(cs, rs)
    IN  IF revenue <= 0
        THEN [tag |-> "error", error |-> "No revenue data found"]
        ELSE [tag |-> "ok",
              gross_profit        |-> revenue - costs,
              gross_profit_margin |-> Fin(revenue - costs, revenue),
              revenue             |-> revenue,
              costs               |-> costs,
              profit_per_transaction |->
                  IF Len(rs) = 0 THEN Zero ELSE Fin(revenue - costs, Len(rs)),
              break_even_defined  |-> break_even_defined(cs, rs)]

----------------------------------------------------------------------------
(* get_cash_flow_trend *)

\* insertion of one row into rows sorted by date, after the rows of the
\* same date
RECURSIVE InsertByDate(_, _, _)
InsertByDate(cs, sorted, row) ==
    IF sorted = <<>> THEN <<row>>
    ELSE IF Cell(cs, row, c_date).n < Cell(cs, Head(sorted), c_date).n
         THEN <<row>> \o sorted
    ELSE <<Head(sorted)>> \o InsertByDate(cs, Tail(sorted), row)

\* self.df.sort_values('date')
RECURSIVE sort_values_date(_, _)
sort_values_date(cs, rs) ==
    IF rs = <<>> THEN <<>>
    ELSE InsertByDate(cs, sort_values_date(cs, SubSeq(rs, 1, Len(rs) - 1)), rs[Len(rs)])

\* the data frame get_cash_flow_trend leaves behind
trend_frame_rows(cs, rs) ==
    IF HasCol(cs, c_date) THEN sort_values_date(cs, rs) ELSE rs

\* months fewer than which get_cash_flow_trend fails (line 148)
MinTrendMonths == 2
\* future_periods (line 159)
future_periods == 6

\* sums over the regression sample x = 0 .. n-1, y = net cash flow
SumX(n)  == SumSeq([k \in 1..n |-> k - 1])
SumXX(n) == SumSeq([k \in 1..n |-> (k - 1) * (k - 1)])
SumY(y)  == SumSeq(y)
SumXY(y) == SumSeq([k \in 1..Len(y) |-> (k - 1) * y[k]])
SumYY(y) == SumSeq([k \in 1..Len(y) |-> y[k] * y[k]])
\* n times the centred sums of squares and products
Sxx(n) == n * SumXX(n) - SumX(n) * SumX(n)
Sxy(y) == Len(y) * SumXY(y) - SumX(Len(y)) * SumY(y)
Syy(y) == Len(y) * SumYY(y) - SumY(y) * SumY(y)

\* model.coef_[0] of the least-squares line
trend_slope(y) == Fin(Sxy(y), Sxx(Len(y)))

\* model.score(X, y): the coefficient of determination, 1.0 for a constant
\* series (which the line fits exactly)
r_squared(y) ==
    IF Syy(y) = 0 THEN Fin(1, 1)
    ELSE Fin(Sxy(y) * Sxy(y), Sxx(Len(y)) * Syy(y))

\* model.predict at month index x
predict(y, x) ==
    LET n == Len(y)
    IN  Fin(SumY(y) * Sxx(n) - Sxy(y) * SumX(n) + n * Sxy(y) * x, n * Sxx(n))

\* the forecast begun one month late, at index len(monthly_data) + 1
forecast_of_from_next(y) == [k \in 1..future_periods |-> predict(y, Len(y) + k)]

\* model.predict(future_X).tolist()
forecast_of(y) == [k \in 1..future_periods |-> predict(y, Len(y) + k - 1)]

\* np.std(y) squared: the population variance
volatility_sq(y) == Fin(Syy(y), Len(y) * Len(y))

\* get_cash_flow_trend accepting a single monthly bucket
get_cash_flow_trend_one_month(cs, rs) ==
    IF ~HasCol(cs, c_date)
    THEN [tag |-> "error", error |-> "Date column required for trend analysis"]
    ELSE LET monthly == create_monthly_aggregations(cs, sort_values_date(cs, rs))
             y       == NetSeries(monthly)
         IN  IF Len(monthly) < MinTrendMonths - 1
             THEN [tag |-> "error", error |-> "Insufficient data for trend analysis"]
             ELSE [tag |-> "ok",
                   trend_slope        |-> trend_slope(y),
                   r_squared          |-> r_squared(y),
                   current_trajectory |-> IF Sxy(y) > 0 THEN "improving" ELSE "declining",
                   monthly_data       |-> monthly,
                   forecast           |-> forecast_of(y),
                   volatility_sq      |-> volatility_sq(y)]

\* the value get_cash_flow_trend returns
get_cash_flow_trend(cs, rs) ==
    IF ~HasCol(cs, c_date)
    THEN [tag |-> "error", error |-> "Date column required for trend analysis"]
    ELSE LET monthly == create_monthly_aggregations(cs, sort_values_date(cs, rs))
             y       == NetSeries(monthly)
         IN  IF Len(monthly) < MinTrendMonths
             THEN [tag |-> "error", error |-> "Insufficient data for trend analysis"]
             ELSE [tag |-> "ok",
                   trend_slope        |-> trend_slope(y),
                   r_squared          |-> r_squared(y),
                   current_trajectory |-> IF Sxy(y) > 0 THEN "improving" ELSE "declining",
                   monthly_data       |-> monthly,
                   forecast           |-> forecast_of(y),
                   volatility_sq      |-> volatility_sq(y)]

----------------------------------------------------------------------------
(* get_financial_health_score *)

\* the conditions get_financial_health_score tests (lines 214-244); a
\* sub-metric that is an error value makes its conditions false
health_conditions(cf, prof, tr) ==
    LET spread == IF cf.tag = "ok"
                  THEN Abs(cf.total_income) + Abs(cf.total_expenses) ELSE 0
    IN  [net_positive   |-> cf.tag = "ok" /\ cf.net_cash_flow > 0,
         ratio_high     |-> cf.tag = "ok" /\ Gt(cf.cash_flow_ratio, 6, 5),
         margin_005     |-> prof.tag = "ok" /\ Gt(prof.gross_profit_margin, 1, 20),
         margin_015     |-> prof.tag = "ok" /\ Gt(prof.gross_profit_margin, 3, 20),
         margin_030     |-> prof.tag = "ok" /\ Gt(prof.gross_profit_margin, 3, 10),
         slope_positive |-> tr.tag = "ok" /\ tr.trend_slope.num > 0,
         r2_high        |-> tr.tag = "ok" /\ Gt(tr.r_squared, 7, 10),
         \* volatility < mean([|income|, |expenses|]) * 0.1, both sides squared
         vol_010        |-> tr.tag = "ok" /\
                            400 * tr.volatility_sq.num
                              < tr.volatility_sq.den * spread * spread,
         \* volatility < mean([|income|, |expenses|]) * 0.2, both sides squared
         vol_020        |-> tr.tag = "ok" /\
                            100 * tr.volatility_sq.num
                              < tr.volatility_sq.den * spread * spread]

ConditionNames == {"net_positive", "ratio_high", "margin_005", "margin_015",
                   "margin_030", "slope_positive", "r2_high", "vol_010", "vol_020"}

\* max_score (line 210)
max_score == 100

\* the points with the margin tiers tested lowest first
score_points_lowest_tier_first(c) ==
      (IF c.net_positive THEN 20 + (IF c.ratio_high THEN 10 ELSE 0) ELSE 0)
    + (IF c.margin_005 THEN 10
       ELSE IF c.margin_015 THEN 20
       ELSE IF c.margin_030 THEN 30 ELSE 0)
    + (IF c.slope_positive THEN 15 + (IF c.r2_high THEN 10 ELSE 0) ELSE 0)
    + (IF c.vol_010 THEN 15 ELSE IF c.vol_020 THEN 10 ELSE 0)

\* the points with each bonus granted without the test it is nested in
score_points_bonus_unnested(c) ==
      (IF c.net_positive THEN 20 ELSE 0) + (IF c.ratio_high THEN 10 ELSE 0)
    + (IF c.margin_030 THEN 30
       ELSE IF c.margin_015 THEN 20
       ELSE IF c.margin_005 THEN 10 ELSE 0)
    + (IF c.slope_positive THEN 15 ELSE 0) + (IF c.r2_high THEN 10 ELSE 0)
    + (IF c.vol_010 THEN 15 ELSE IF c.vol_020 THEN 10 ELSE 0)

\* the points of lines 212-244 for a valuation of the conditions
score_points(c) ==
      (IF c.net_positive THEN 20 + (IF c.ratio_high THEN 10 ELSE 0) ELSE 0)
    + (IF c.margin_030 THEN 30
       ELSE IF c.margin_015 THEN 20
       ELSE IF c.margin_005 THEN 10 ELSE 0)
    + (IF c.slope_positive THEN 15 + (IF c.r2_high THEN 10 ELSE 0) ELSE 0)
    + (IF c.vol_010 THEN 15 ELSE IF c.vol_020 THEN 10 ELSE 0)

\* min(score, max_score)
score_of(c) == IF score_points(c) < max_score THEN score_points(c) ELSE max_score

\* _score_to_grade
score_to_grade(score) ==
    IF score >= 90 THEN "A+"
    ELSE IF score >= 80 THEN "A"
    ELSE IF score >= 70 THEN "B"
    ELSE IF score >= 60 THEN "C"
    ELSE IF score >= 50 THEN "D"
    ELSE "F"

\* _get_health_assessment
get_health_assessment(score) ==
    IF score >= 80 THEN "Excellent"
    ELSE IF score >= 60 THEN "Good"
    ELSE IF score >= 40 THEN "Moderate"
    ELSE "Poor"

\* the value get_financial_health_score returns, from the sub-metrics it
\* has recomputed
get_financial_health_score(cf, prof, tr) ==
    LET c == health_conditions(cf, prof, tr)
    IN  [tag        |-> "ok",
         conditions |-> c,
         score      |-> score_of(c),
         grade      |-> score_to_grade(score_of(c)),
         assessment |-> get_health_assessment(score_of(c))]

----------------------------------------------------------------------------
(* detect_anomalies *)

\* rows below which detect_anomalies fails (line 179)
MinAnomalyRows == 10
\* anomaly rows reported at most (line 201)
MaxReportedAnomalies == 20

\* anomaly_error with the row threshold one lower
anomaly_error_nine_rows(cs, rs) ==
    IF Len(rs) < MinAnomalyRows - 1 THEN "Insufficient data for anomaly detection"
    ELSE IF ~HasCol(cs, c_amount) THEN "No suitable columns for anomaly detection"
    ELSE ""

\* why detect_anomalies returns an error value, "" when it does not
anomaly_error(cs, rs) ==
    IF Len(rs) < MinAnomalyRows THEN "Insufficient data for anomaly detection"
    ELSE IF ~HasCol(cs, c_amount) THEN "No suitable columns for anomaly detection"
    ELSE ""

\* The row sets IsolationForest(contamination=0.1, random_state=42) can flag
\* over the single feature amount: the forest scores a row by its amount
\* alone, so rows of equal amount are flagged together, and it flags the rows
\* scoring strictly below the 10th percentile of the scores, which are at
\* most ceil((n - 1) / 10) rows
flaggable_sets(cs, rs) ==
    LET n == Len(rs)
    IN  {F \in SUBSET (1..n) :
            /\ 10 * Cardinality(F) < n + 9
            /\ \A i \in F : \A j \in 1..n :
                  Cell(cs, rs[j], c_amount) = Cell(cs, rs[i], c_amount) => j \in F}

RECURSIVE SetToSeq(_)
\* the members of a set of positions in increasing order (np.where)
SetToSeq(S) ==
    IF S = {} THEN <<>> ELSE <<MinOf(S)>> \o SetToSeq(S \ {MinOf(S)})

\* the populated value of detect_anomalies (lines 195-203) for the flagged
\* positions F
anomaly_report(cs, rs, F) ==
    LET idx == SetToSeq(F)
    IN  [tag |-> "ok",
         anomaly_indices    |-> idx,
         anomaly_count      |-> Len(idx),
         anomaly_percentage |-> Fin(100 * Len(idx), Len(rs)),
         anomalies          |-> IF Len(idx) < MaxReportedAnomalies THEN idx
                                ELSE SubSeq(idx, 1, MaxReportedAnomalies),
         total_anomaly_value |->
             SumSeq([k \in 1..Len(idx) |-> Cell(cs, rs[idx[k]], c_amount).n])]

\* the values detect_anomalies can return
detect_anomalies(cs, rs) ==
    IF anomaly_error(cs, rs) # ""
    THEN {[tag |-> "error", error |-> anomaly_error(cs, rs)]}
    ELSE {anomaly_report(cs, rs, F) : F \in flaggable_sets(cs, rs)}

----------------------------------------------------------------------------
(* BenchmarkAnalysis *)

\* INDUSTRY_BENCHMARKS, in hundredths
INDUSTRY_BENCHMARKS ==
    [retail        |-> [profit_margin |-> 5,  cash_flow_ratio |-> 115, expense_ratio |-> 85],
     services      |-> [profit_margin |-> 15, cash_flow_ratio |-> 125, expense_ratio |-> 75],
     manufacturing |-> [profit_margin |-> 8,  cash_flow_ratio |-> 120, expense_ratio |-> 80],
     technology    |-> [profit_margin |-> 25, cash_flow_ratio |-> 140, expense_ratio |-> 65],
     consulting    |-> [profit_margin |-> 20, cash_flow_ratio |-> 130, expense_ratio |-> 70],
     default       |-> [profit_margin |-> 10, cash_flow_ratio |-> 120, expense_ratio |-> 80]]

\* INDUSTRY_BENCHMARKS.get(industry, INDUSTRY_BENCHMARKS['default'])
benchmarks_for(industry) ==
    IF industry \in DOMAIN INDUSTRY_BENCHMARKS THEN INDUSTRY_BENCHMARKS[industry]
    ELSE INDUSTRY_BENCHMARKS["default"]

\* cls.INDUSTRY_BENCHMARKS.get(industry, cls.INDUSTRY_BENCHMARKS['default'])
\* on the class attribute as it is at the time of the call
get_benchmarks(table, industry) ==
    IF industry \in DOMAIN table THEN table[industry] ELSE table["default"]

\* the class attribute with the default stored under a code it lacks, as
\* dict.setdefault would leave it
table_after_setdefault(table, industry) ==
    [k \in DOMAIN table \cup {industry} |->
        IF k \in DOMAIN table THEN table[k] ELSE table["default"]]

\* the class attribute after compare_to_industry: dict.get stores nothing
\* and no line of compare_to_industry assigns to it
table_after_compare(table, industry) == table

\* r - p/100
MinusHundredths(r, p) ==
    IF r.inf THEN Inf ELSE Fin(100 * r.num - p * r.den, 100 * r.den)
\* r - p/100 in place of p/100 - r: the expense ratio compared as the other
\* two metrics are
ExpenseMinusBenchmark(p, r) == Fin(100 * r.num - p * r.den, 100 * r.den)

\* p/100 - r   (r finite)
HundredthsMinus(p, r) == Fin(p * r.den - 100 * r.num, 100 * r.den)

\* the steps of _calculate_percentile, in hundredths
percentile_steps ==
    [profit_margin   |-> <<5, 2, -2>>,
     cash_flow_ratio |-> <<20, 10, -10>>,
     expense_ratio   |-> <<10, 5, -5>>]

\* _calculate_percentile
calculate_percentile(difference, metric_type) ==
    LET s == percentile_steps[metric_type]
    IN  IF Gt(difference, s[1], 100) THEN 90
        ELSE IF Gt(difference, s[2], 100) THEN 75
        ELSE IF Gt(difference, s[3], 100) THEN 50
        ELSE 25

Absent == [present |-> FALSE]

Compared(value, benchmark, difference, metric_type) ==
    [present            |-> TRUE,
     your_performance   |-> value,
     industry_benchmark |-> benchmark,
     difference         |-> difference,
     performance        |-> IF Gt(difference, 0, 1) THEN "above" ELSE "below",
     percentile         |-> calculate_percentile(difference, metric_type)]

\* the comparison of compare_to_industry (lines 443-478) against the
\* benchmarks b it looked up
compare_with(b, cf, prof) ==
        [profit_margin |->
            IF prof.tag = "ok"
            THEN Compared(prof.gross_profit_margin, b.profit_margin,
                          MinusHundredths(prof.gross_profit_margin, b.profit_margin),
                          "profit_margin")
            ELSE Absent,
         cash_flow_ratio |->
            IF cf.tag = "ok"
            THEN Compared(cf.cash_flow_ratio, b.cash_flow_ratio,
                          MinusHundredths(cf.cash_flow_ratio, b.cash_flow_ratio),
                          "cash_flow_ratio")
            ELSE Absent,
         expense_ratio |->
            IF cf.tag = "ok"
            THEN Compared(cf.expense_ratio, b.expense_ratio,
                          HundredthsMinus(b.expense_ratio, cf.expense_ratio),
                          "expense_ratio")
            ELSE Absent]

\* compare_to_industry, from the cash flow and profitability it recomputes
compare_to_industry(cf, prof, industry) ==
    compare_with(benchmarks_for(industry), cf, prof)

----------------------------------------------------------------------------
(* The rule engine of utils.py.  A metric mapping is read with            *)
(* .get(key, default); the profitability placeholder of                   *)
(* process_financial_data holds the text 'N/A' under every key, and       *)
(* comparing that text with a number raises TypeError.                    *)

\* profitability_metrics of process_financial_data (lines 28-39)
profitability_metrics_of(prof) ==
    IF prof.tag = "error" THEN [tag |-> "na"] ELSE prof

\* cash_flow.get('net_cash_flow', 0)
NetOr0(cf) == IF cf.tag = "ok" THEN cf.net_cash_flow ELSE 0
\* cash_flow.get('cash_flow_ratio', 1)
RatioOr1(cf) == IF cf.tag = "ok" THEN cf.cash_flow_ratio ELSE Fin(1, 1)
\* cash_flow.get('expense_ratio', 0)
ExpenseRatioOr0(cf) == IF cf.tag = "ok" THEN cf.expense_ratio ELSE Zero
\* profitability.get('gross_profit_margin', 0) for a numeric margin
MarginOr0(pm) == IF pm.tag = "ok" THEN pm.gross_profit_margin ELSE Zero
\* cash_flow_trend.get('trend_slope', 0)
SlopeOr0(tr) == IF tr.tag = "ok" THEN tr.trend_slope ELSE Zero

\* a comparison of profitability['gross_profit_margin'] with a number raises
margin_compare_raises(pm) == pm.tag = "na"

\* _assess_risks: the risk types, in order
assess_risks(cf, pm, tr) ==
       (IF NetOr0(cf) < 0 THEN <<"liquidity">> ELSE <<>>)
    \o (IF Lt(MarginOr0(pm), 1, 20) THEN <<"profitability">> ELSE <<>>)
    \o (IF Lt(SlopeOr0(tr), 0, 1) THEN <<"trend">> ELSE <<>>)
    \o (IF tr.tag = "ok" /\ tr.volatility_sq.num > 25000000 * tr.volatility_sq.den
        THEN <<"volatility">> ELSE <<>>)

\* _identify_opportunities: the opportunity types, in order
identify_opportunities(cf, pm, tr) ==
       (IF NetOr0(cf) > 10000 THEN <<"investment">> ELSE <<>>)
    \o (IF Gt(MarginOr0(pm), 1, 10) /\ Lt(MarginOr0(pm), 3, 10)
        THEN <<"margin_improvement">> ELSE <<>>)
    \o (IF Gt(SlopeOr0(tr), 0, 1) /\ Gt(MarginOr0(pm), 1, 5)
        THEN <<"expansion">> ELSE <<>>)
    \o (IF Gt(ExpenseRatioOr0(cf), 4, 5) THEN <<"efficiency">> ELSE <<>>)

\* generate_insights raises inside _analyze_profitability (margin > 0.4)
insights_raise(pm) == margin_compare_raises(pm)

\* generate_insights: for each narrative list whether the metric was
\* analysed or reported as unavailable, and the two structured lists
generate_insights(cf, pm, tr, hs) ==
    [cash_flow_insights     |-> IF cf.tag = "ok" THEN "analysed" ELSE "unable",
     profitability_insights |-> IF pm.tag = "ok" THEN "analysed" ELSE "unable",
     trend_insights         |-> IF tr.tag = "ok" THEN "analysed" ELSE "unable",
     health_insights        |-> IF hs.tag = "ok" THEN "analysed" ELSE "unable",
     risk_assessment        |-> assess_risks(cf, pm, tr),
     growth_opportunities   |-> identify_opportunities(cf, pm, tr)]

\* generate_recommendations raises at its first margin comparison (line 41)
recommendations_raise(pm) == margin_compare_raises(pm)

\* the strategic recommendations of lines 76-88, in the order of
\* benchmark_comparison.items()
benchmark_recommendations(bc) ==
       (IF bc.profit_margin.present /\ bc.profit_margin.performance = "below"
        THEN <<"profit margin below industry average">> ELSE <<>>)
    \o (IF bc.cash_flow_ratio.present /\ bc.cash_flow_ratio.performance = "below"
        THEN <<"cash flow ratio below industry standards">> ELSE <<>>)

\* generate_recommendations
generate_recommendations(cf, pm, tr, bc, size) ==
    [immediate_actions |->
           (IF NetOr0(cf) < 0
            THEN <<"reduce non-essential expenses", "accelerate receivables",
                   "consider emergency financing">> ELSE <<>>)
        \o (IF Lt(MarginOr0(pm), 1, 20)
            THEN <<"urgent pricing analysis", "renegotiate supplier contracts",
                   "eliminate unprofitable products">> ELSE <<>>),
     short_term_strategies |->
        IF Lt(RatioOr1(cf), 6, 5)
        THEN <<"stricter payment terms", "optimize inventory", "invoice financing">>
        ELSE <<>>,
     long_term_strategies |->
        IF Lt(SlopeOr0(tr), 0, 1)
        THEN <<"new revenue streams", "customer acquisition", "strategic partnerships">>
        ELSE <<>>,
     strategic_recommendations |->
           benchmark_recommendations(bc)
        \o (IF size = "small"
            THEN <<"cloud-based financial tools", "automated invoicing",
                   "customer relationships">> ELSE <<>>),
     cost_optimization |->
        IF Gt(ExpenseRatioOr0(cf), 4, 5)
        THEN <<"expense audit", "zero-based budgeting", "automate processes",
               "negotiate vendor rates">> ELSE <<>>,
     revenue_enhancement |->
        IF Lt(MarginOr0(pm), 3, 10)
        THEN <<"premium offerings", "value-based pricing", "customer retention",
               "cross-selling">> ELSE <<>>,
     risk_mitigation |-> <<>>]

\* create_financial_alerts raises at its margin comparison (line 145)
alerts_raise(pm) == margin_compare_raises(pm)

\* _calculate_overall_risk with each threshold one lower
calculate_overall_risk_from(critical_count, warning_count) ==
    IF critical_count > 1 THEN "very_high"
    ELSE IF critical_count > 0 THEN "high"
    ELSE IF warning_count > 2 THEN "medium"
    ELSE IF warning_count > 0 THEN "low"
    ELSE "minimal"

\* _calculate_overall_risk
calculate_overall_risk(critical_count, warning_count) ==
    IF critical_count > 2 THEN "very_high"
    ELSE IF critical_count > 0 THEN "high"
    ELSE IF warning_count > 3 THEN "medium"
    ELSE IF warning_count > 0 THEN "low"
    ELSE "minimal"

\* create_financial_alerts: the alert types of each list, in order
create_financial_alerts(cf, pm, an, hs) ==
    LET critical ==
               (IF NetOr0(cf) < -1000 THEN <<"cash_flow">> ELSE <<>>)
            \o (IF (IF hs.tag = "ok" THEN hs.score ELSE 0) < 40
                THEN <<"financial_health">> ELSE <<>>)
        warning ==
               (IF Lt(RatioOr1(cf), 11, 10) THEN <<"liquidity">> ELSE <<>>)
            \o (IF Lt(MarginOr0(pm), 1, 10) THEN <<"profitability">> ELSE <<>>)
            \o (IF (IF an.tag = "ok" THEN an.anomaly_count ELSE 0) > 0
                THEN <<"anomalies">> ELSE <<>>)
        opportunity ==
               (IF NetOr0(cf) > 10000 THEN <<"investment">> ELSE <<>>)
            \o (IF Gt(MarginOr0(pm), 3, 10) THEN <<"expansion">> ELSE <<>>)
    IN  [critical_alerts    |-> critical,
         warning_alerts     |-> warning,
         opportunity_alerts |-> opportunity,
         severity_levels    |->
             [critical     |-> Len(critical),
              warning      |-> Len(warning),
              opportunity  |-> Len(opportunity),
              overall_risk |-> calculate_overall_risk(Len(critical), Len(warning))]]

----------------------------------------------------------------------------
(* Report assembly (services.py) *)

\* _generate_forecast without its guard on the trend's forecast
generate_forecast_unguarded(tr) ==
    LET forecast == IF tr.tag = "ok" THEN tr.forecast ELSE <<>>
    IN  [tag |-> "ok",
         next_6_months    |-> forecast,
         confidence_level |-> IF tr.tag = "ok" /\ Gt(tr.r_squared, 1, 2)
                              THEN "medium" ELSE "low",
         scenario_analysis |->
             [optimistic  |-> [k \in 1..Len(forecast) |->
                                  Fin(6 * forecast[k].num, 5 * forecast[k].den)],
              pessimistic |-> [k \in 1..Len(forecast) |->
                                  Fin(4 * forecast[k].num, 5 * forecast[k].den)],
              realistic   |-> forecast]]

\* _generate_forecast
generate_forecast(tr) ==
    IF tr.tag # "ok"
    THEN [tag |-> "error", error |-> "Insufficient data for forecasting"]
    ELSE [tag |-> "ok",
          next_6_months    |-> tr.forecast,
          confidence_level |-> IF Gt(tr.r_squared, 1, 2) THEN "medium" ELSE "low",
          scenario_analysis |->
              [optimistic  |-> [k \in 1..Len(tr.forecast) |->
                                   Fin(6 * tr.forecast[k].num, 5 * tr.forecast[k].den)],
               pessimistic |-> [k \in 1..Len(tr.forecast) |->
                                   Fin(4 * tr.forecast[k].num, 5 * tr.forecast[k].den)],
               realistic   |-> tr.forecast]]

ActionItem(priority, category, action, timeline) ==
    [priority |-> priority, category |-> category, action |-> action,
     timeline |-> timeline]

\* _generate_action_items with the strategic loop ahead of the immediate one
generate_action_items_strategic_first(recs, al) ==
       [k \in 1..Len(al.critical_alerts) |->
           ActionItem("high", "alert", al.critical_alerts[k], "immediate")]
    \o [k \in 1..Len(recs.strategic_recommendations) |->
           ActionItem("low", "strategic", recs.strategic_recommendations[k], "1-3 months")]
    \o [k \in 1..Len(recs.immediate_actions) |->
           ActionItem("medium", "improvement", recs.immediate_actions[k], "1-2 weeks")]

\* _generate_action_items
generate_action_items(recs, al) ==
       [k \in 1..Len(al.critical_alerts) |->
           ActionItem("high", "alert", al.critical_alerts[k], "immediate")]
    \o [k \in 1..Len(recs.immediate_actions) |->
           ActionItem("medium", "improvement", recs.immediate_actions[k], "1-2 weeks")]
    \o [k \in 1..Len(recs.strategic_recommendations) |->
           ActionItem("low", "strategic", recs.strategic_recommendations[k], "1-3 months")]

\* _generate_executive_summary raises KeyError: with no 'net_cash_flow' key
\* the test .get('net_cash_flow', 0) > 0 fails and the else branch reads
\* cash_flow['net_cash_flow'] (line 240)
executive_summary_raises(cf) == cf.tag # "ok"

\* next_steps: immediate_actions[:3]
Top3(s) == IF Len(s) <= 3 THEN s ELSE SubSeq(s, 1, 3)

\* _generate_executive_summary, for a cash flow that has 'net_cash_flow'
generate_executive_summary(hs, cf, pm, recs) ==
    LET positive == cf.net_cash_flow > 0
        strong   == pm.tag = "ok" /\ Gt(pm.gross_profit_margin, 3, 20)
        some     == pm.tag = "ok" /\ Gt(pm.gross_profit_margin, 0, 1)
    IN  [overall_health  |-> hs.grade,
         key_findings    |->
                (IF positive THEN <<"Positive cash flow">> ELSE <<>>)
             \o (IF strong THEN <<"Strong profit margin">> ELSE <<>>),
         critical_issues |->
                (IF positive THEN <<>> ELSE <<"Negative cash flow">>)
             \o (IF ~strong /\ ~some
                 THEN <<"Operating at a loss or unable to calculate profitability">>
                 ELSE <<>>),
         opportunities   |->
                IF ~strong /\ some THEN <<"Opportunity to improve profit margins">>
                ELSE <<>>,
         next_steps      |-> Top3(recs.immediate_actions)]

\* str(e) of the exception caught at line 83, by its type
str_e(error_type) ==
    CASE error_type = "TypeError" ->
            "'>' not supported between instances of 'str' and 'float'"
      [] error_type = "KeyError" -> "'net_cash_flow'"
      [] error_type = "AttributeError" -> "'DataFrame' object has no attribute 'str'"
      [] error_type = "ValueError" ->
            "Cannot set a DataFrame with multiple columns to the single column income"
      [] OTHER -> "'expenses'"

\* error_response of process_financial_data (lines 88-105); message and
\* suggestions are the pieces of their f-strings, in order
error_response(error_type) ==
    [error       |-> TRUE,
     message     |-> <<"Analysis failed: ", str_e(error_type)>>,
     error_type  |-> error_type,
     suggestions |-> << <<"Your file will be analyzed automatically">>,
                        <<"Our AI will detect columns containing financial data">>,
                        <<"Supported: dates, amounts, income, expenses, categories">>,
                        <<"please check the file format (CSV or Excel)">>,
                        <<"Technical details: ", str_e(error_type)>> >>]

\* analysis_result of process_financial_data (lines 54-79)
analysis_result(cs, rs, cf, pm, tr, hs, an, bc, ins, recs, al) ==
    [error |-> FALSE,
     data_quality      |-> [rows_processed |-> Len(rs), columns_found |-> cs],
     financial_metrics |-> [cash_flow      |-> cf,
                            profitability  |-> pm,
                            trend_analysis |-> tr,
                            health_score   |-> hs,
                            anomalies      |-> an],
     benchmark_analysis |-> bc,
     ai_insights        |-> ins,
     recommendations    |-> recs,
     alerts             |-> al,
     forecast           |-> generate_forecast(tr),
     action_items       |-> generate_action_items(recs, al),
     executive_summary  |-> generate_executive_summary(hs, cf, pm, recs)]

----------------------------------------------------------------------------
(* export_analysis *)

\* n / d rounded to the nearest integer, ties to the even one (d > 0): the
\* rounding of a format specification; the float behind a decimal tie may
\* lie on either side of it, a case no margin of the model meets
RoundHalfEven(n, d) ==
    LET q == n \div d
        r == n % d
    IN  IF 2 * r < d THEN q
        ELSE IF 2 * r > d THEN q + 1
        ELSE IF q % 2 = 0 THEN q ELSE q + 1

\* f"${x:,.2f}": the amount shown, in cents
format_money(x) == RoundHalfEven(100 * x, 1)

\* the ratio cut, not rounded, to tenths of a percent
format_percent_truncated(r) == (1000 * r.num) \div r.den

\* f"{r:.1%}": the ratio shown, in tenths of a percent
format_percent(r) == RoundHalfEven(1000 * r.num, r.den)

\* _create_csv_export: the rows after the header, or the exception raised
create_csv_export(rep) ==
    IF rep.error THEN [tag |-> "raised", error_type |-> "KeyError"]
    ELSE LET cf == rep.financial_metrics.cash_flow
             pm == rep.financial_metrics.profitability
             hs == rep.financial_metrics.health_score
         IN  IF pm.tag = "na" THEN [tag |-> "raised", error_type |-> "ValueError"]
             ELSE [tag |-> "csv",
                   cash_flow     |-> <<format_money(NetOr0(cf)),
                                       IF NetOr0(cf) > 0 THEN "Positive" ELSE "Negative">>,
                   profit_margin |-> <<format_percent(MarginOr0(pm)),
                                       IF Gt(MarginOr0(pm), 1, 10) THEN "Good"
                                       ELSE "Needs Improvement">>,
                   health_score  |-> <<hs.score, hs.grade>>]

\* _create_text_summary: the values the digest shows, or the exception raised
create_text_summary(rep) ==
    IF rep.error THEN [tag |-> "raised", error_type |-> "KeyError"]
    ELSE LET cf == rep.financial_metrics.cash_flow
             pm == rep.financial_metrics.profitability
             hs == rep.financial_metrics.health_score
         IN  IF pm.tag = "na" THEN [tag |-> "raised", error_type |-> "ValueError"]
             ELSE [tag |-> "summary",
                   health_score  |-> <<hs.score, hs.grade>>,
                   cash_flow     |-> format_money(NetOr0(cf)),
                   profit_margin |-> format_percent(MarginOr0(pm)),
                   assessment    |-> hs.assessment,
                   top_recommendations |-> Top3(rep.recommendations.immediate_actions)]

\* the format_type values of the model; 'xml' stands for any unlisted one
ExportFormats == {"json", "summary", "csv", "xml"}

\* FinancialAnalysisService.export_analysis
export_analysis(rep, format_type) ==
    IF format_type = "json" THEN [tag |-> "json", dumps |-> rep]
    ELSE IF format_type = "summary" THEN create_text_summary(rep)
    ELSE IF format_type = "csv" THEN create_csv_export(rep)
    ELSE [tag |-> "object", value |-> rep]

----------------------------------------------------------------------------
(* The uploaded files of the model *)

h_Date        == <<"D","a","t","e">>
h_Income      == <<"I","n","c","o","m","e">>
h_Expenses    == <<"E","x","p","e","n","s","e","s">>
h_TransDate   == <<"T","r","a","n","s","a","c","t","i","o","n"," ","D","a","t","e">>
h_Total       == <<" ","T","o","t","a","l"," ">>
h_Type        == <<"T","y","p","e">>
h_notes       == <<"n","o","t","e","s">>
h_cost        == <<"c","o","s","t">>
h_Sales       == <<"S","a","l","e","s">>

t_na          == <<"n","/","a">>
t_Sales       == <<"S","a","l","e","s">>
t_OfficeRent  == <<"O","f","f","i","c","e"," ","R","e","n","t">>
t_ClientPayment == <<"C","l","i","e","n","t"," ","P","a","y","m","e","n","t">>
t_SalesCost   == <<"s","a","l","e","s"," ","c","o","s","t">>
t_OfficeBill  == <<"O","f","f","i","c","e"," ","B","i","l","l">>
t_usd1200     == <<"$","1",",","2","0","0">>
t_minus12     == <<"-","1","2">>
t_abc         == <<"a","b","c">>

\* a file layout: its header row and, per column, the cells a row can hold
Schemas == <<
    [headers |-> <<h_Date, h_Income, h_Expenses>>,
     cells   |-> << {Date(1, 2), Date(2, 1)}, {Num(0), Num(50)},
                    {Num(0), Num(12), NaN} >>],
    [headers |-> <<c_amount, c_category>>,
     cells   |-> << {Num(50), Num(-30), Str(t_usd1200)},
                    {Str(t_Sales), Str(t_OfficeRent), Str(t_SalesCost)} >>],
    [headers |-> <<h_TransDate, h_Total, h_Type>>,
     cells   |-> << {Date(1, 5), Date(1, 2), Date(3, 1), Str(t_na)},
                    {Num(20), Num(7)},
                    {Str(t_SalesCost), Str(t_OfficeBill)} >>],
    [headers |-> <<c_date, c_revenue>>,
     cells   |-> << {Date(1, 2), Date(2, 1)}, {Num(0), Num(50)} >>],
    [headers |-> <<c_revenue, h_cost>>,
     cells   |-> << {Num(0), Num(50)}, {Num(12)} >> ],
    [headers |-> <<c_date, h_notes>>,
     cells   |-> << {Date(1, 2), Date(2, 1)}, {Str(t_abc)} >>],
    [headers |-> <<c_income, c_expenses>>,
     cells   |-> << {Num(0), Num(50), Str(t_abc)},
                    {Num(0), Num(12), Str(t_minus12)} >>],
    [headers |-> <<c_revenue, h_Sales>>,
     cells   |-> << {Num(50)}, {Num(20)} >>] >>

\* the rows a layout admits
RowsOf(schema) ==
    LET n == Len(schema.headers)
        all == UNION {schema.cells[j] : j \in 1..n}
    IN  {r \in [1..n -> all] : \A j \in 1..n : r[j] \in schema.cells[j]}

SeqsUpTo(S, n) == UNION {[1..k -> S] : k \in 0..n}

Repeat(x, k) == [i \in 1..k |-> x]

\* files of at most MaxRows arbitrary rows, and files of one repeated row
\* (long enough to reach the row thresholds of the metrics) behind at most
\* one other row
FilesOf(schema) ==
    {[cols |-> schema.headers, rows |-> rs] : rs \in SeqsUpTo(RowsOf(schema), MaxRows)}
    \cup
    {[cols |-> schema.headers, rows |-> prefix \o Repeat(filler, k)] :
        prefix \in SeqsUpTo(RowsOf(schema), 1),
        filler \in RowsOf(schema),
        k \in {k \in 1..MaxBulk : k + 2 >= MinAnomalyRows}}

\* Scenario A of the specification: explicit income and expenses
ScenarioA ==
    [cols |-> <<c_date, c_income, c_expenses>>,
     rows |-> << <<Date(1, 1), Num(5000), Num(0)>>,
                 <<Date(1, 2), Num(0), Num(1200)>> >>]

\* Scenario B of the specification: amount and category only
ScenarioB ==
    [cols |-> <<c_amount, c_category>>,
     rows |-> << <<Num(5000), Str(t_ClientPayment)>>,
                 <<Num(1200), Str(t_OfficeRent)>> >>]

Files == UNION {FilesOf(Schemas[k]) : k \in 1..Len(Schemas)} \cup {ScenarioA, ScenarioB}

\* the values of the request parameters
Industries == {"default", "technology", "unlisted"}
BusinessSizes == {"small", "large", "enterprise"}

----------------------------------------------------------------------------
(* process_financial_data in stages, each a function of what the          *)
(* invocation holds itself                                                *)

Raise(error_type) == [raised |-> TRUE, error_type |-> error_type]

\* FinancialData(file): the normalised data frame, or the exception
construct(file) ==
    LET h == [j \in 1..Len(file.cols) |-> NormalizeHeader(file.cols[j])]
        e == ensure_income_expenses(standardize_columns(h), file.rows)
    IN  IF e.raised THEN Raise(ensure_error_type(standardize_columns(h), file.rows))
        ELSE IF clean_data(e.cols, e.rows).raised THEN Raise("AttributeError")
        ELSE [raised |-> FALSE,
              cols |-> clean_data(e.cols, e.rows).cols,
              rows |-> clean_data(e.cols, e.rows).rows]

\* the flagged rows are a function of the data frame: the forest is built
\* with random_state=42 (line 191)
fit_predict(cs, rs) == CHOOSE a \in detect_anomalies(cs, rs) : TRUE

\* lines 21-25: the five metrics and the data frame they leave behind
compute_metrics(cs, rs) ==
    IF cash_flow_raises(cs, rs) THEN Raise("AttributeError")
    ELSE LET f == cash_flow_frame(cs, rs)
         IN  IF profitability_raises(f.cols, f.rows)
             THEN Raise("KeyError or ValueError")
             ELSE LET sorted == trend_frame_rows(f.cols, f.rows)
                      g      == cash_flow_frame(f.cols, sorted)
                      last   == trend_frame_rows(g.cols, g.rows)
                  IN  [raised          |-> FALSE,
                       cols            |-> g.cols,
                       rows            |-> last,
                       cash_flow       |-> get_cash_flow(cs, rs),
                       profitability   |-> get_profitability(f.cols, f.rows),
                       cash_flow_trend |-> get_cash_flow_trend(f.cols, f.rows),
                       health_score    |->
                           get_financial_health_score(
                               get_cash_flow(f.cols, sorted),
                               get_profitability(g.cols, g.rows),
                               get_cash_flow_trend(g.cols, g.rows)),
                       anomalies       |-> fit_predict(g.cols, last)]

\* lines 42-44 against the benchmarks b: compare_to_industry computes cash
\* flow and profitability again
compare_frame(b, cs, rs) ==
    IF cash_flow_raises(cs, rs) \/ profitability_raises(cs, rs)
    THEN Raise("KeyError or ValueError")
    ELSE LET f == cash_flow_frame(cs, rs)
         IN  [raised |-> FALSE, cols |-> f.cols, rows |-> f.rows,
              benchmark_comparison |->
                  compare_with(b, get_cash_flow(cs, rs),
                               get_profitability(f.cols, f.rows))]

\* lines 47-51: insights, recommendations and alerts
compute_rules(m, bc, size) ==
    LET pm == profitability_metrics_of(m.profitability)
    IN  IF insights_raise(pm) \/ recommendations_raise(pm) \/ alerts_raise(pm)
        THEN Raise("TypeError")
        ELSE [raised          |-> FALSE,
              ai_insights     |-> generate_insights(m.cash_flow, pm, m.cash_flow_trend,
                                                    m.health_score),
              recommendations |-> generate_recommendations(m.cash_flow, pm,
                                                           m.cash_flow_trend, bc, size),
              alerts          |-> create_financial_alerts(m.cash_flow, pm, m.anomalies,
                                                          m.health_score)]

\* lines 54-81: the report, or the exception of the executive summary
assemble(cs, rs, m, bc, r) ==
    IF executive_summary_raises(m.cash_flow) THEN Raise("KeyError")
    ELSE [raised |-> FALSE,
          report |-> analysis_result(cs, rs, m.cash_flow,
                                     profitability_metrics_of(m.profitability),
                                     m.cash_flow_trend, m.health_score, m.anomalies,
                                     bc, r.ai_insights, r.recommendations, r.alerts)]

\* what process_financial_data(file, user_industry, business_size) returns
\* when it runs alone
run_alone(file, industry, size) ==
    LET d == construct(file)
    IN  IF d.raised THEN error_response(d.error_type)
        ELSE LET m == compute_metrics(d.cols, d.rows)
             IN  IF m.raised THEN error_response(m.error_type)
                 ELSE LET c == compare_frame(benchmarks_for(industry), m.cols, m.rows)
                      IN  IF c.raised THEN error_response(c.error_type)
                          ELSE LET r == compute_rules(m, c.benchmark_comparison, size)
                               IN  IF r.raised THEN error_response(r.error_type)
                                   ELSE LET a == assemble(c.cols, c.rows, m,
                                                          c.benchmark_comparison, r)
                                        IN  IF a.raised THEN error_response(a.error_type)
                                            ELSE a.report

----------------------------------------------------------------------------
(* process_financial_data as a state machine *)

Unset == "unset"

Init ==
    /\ pc = "read"
    /\ \E f \in Files : src_cols = f.cols /\ src_rows = f.rows
    /\ cols = <<>>
    /\ rows = <<>>
    /\ cash_flow = NoResult
    /\ profitability = NoResult
    /\ cash_flow_trend = NoResult
    /\ health_score = NoResult
    /\ anomalies = NoResult
    /\ user_industry = Unset
    /\ business_size = Unset
    /\ benchmark_comparison = NoResult
    /\ ai_insights = NoResult
    /\ recommendations = NoResult
    /\ alerts = NoResult
    /\ report = NoResult
    /\ exported = NoResult
    /\ workers = <<>>
    /\ benchmark_table = INDUSTRY_BENCHMARKS
    /\ anomalies_again = NoResult
    /\ cash_flow_again = NoResult
    /\ gemini = NoResult

metrics == <<cash_flow, profitability, cash_flow_trend, health_score, anomalies>>
request == <<user_industry, business_size>>
rules   == <<benchmark_comparison, ai_insights, recommendations, alerts>>
source  == <<src_cols, src_rows>>
\* what the request pipeline never touches
aside   == <<workers, benchmark_table, anomalies_again, cash_flow_again, gemini>>

\* the except clause of process_financial_data
Fail(error_type) ==
    /\ pc' = "done"
    /\ report' = error_response(error_type)

\* FinancialData.__init__, lines 16-22: the file is read and its header
\* normalised
ReadFile ==
    /\ pc = "read"
    /\ cols' = [j \in 1..Len(src_cols) |-> NormalizeHeader(src_cols[j])]
    /\ rows' = src_rows
    /\ pc' = "standardize"
    /\ UNCHANGED <<source, aside, exported, metrics, request, rules, report>>

\* _standardize_columns
StandardizeColumns ==
    /\ pc = "standardize"
    /\ cols' = standardize_columns(cols)
    /\ pc' = "ensure"
    /\ UNCHANGED <<source, aside, exported, rows, metrics, request, rules, report>>

\* _ensure_income_expenses
EnsureIncomeExpenses ==
    /\ pc = "ensure"
    /\ LET f == ensure_income_expenses(cols, rows)
       IN  IF f.raised
           THEN Fail(ensure_error_type(cols, rows)) /\ UNCHANGED <<cols, rows>>
           ELSE cols' = f.cols /\ rows' = f.rows /\ pc' = "clean" /\ UNCHANGED report
    /\ UNCHANGED <<source, aside, exported, metrics, request, rules>>

\* _clean_data
CleanData ==
    /\ pc = "clean"
    /\ LET f == clean_data(cols, rows)
       IN  IF f.raised
           THEN Fail("AttributeError") /\ UNCHANGED <<cols, rows>>
           ELSE cols' = f.cols /\ rows' = f.rows /\ pc' = "cash_flow" /\ UNCHANGED report
    /\ UNCHANGED <<source, aside, exported, metrics, request, rules>>

\* cash_flow = financial_data.get_cash_flow()
GetCashFlow ==
    /\ pc = "cash_flow"
    /\ IF cash_flow_raises(cols, rows)
       THEN Fail("AttributeError") /\ UNCHANGED <<cols, rows, cash_flow>>
       ELSE /\ cash_flow' = get_cash_flow(cols, rows)
            /\ cols' = cash_flow_frame(cols, rows).cols
            /\ rows' = cash_flow_frame(cols, rows).rows
            /\ pc' = "profitability"
            /\ UNCHANGED report
    /\ UNCHANGED <<source, aside, exported, profitability, cash_flow_trend, health_score, anomalies,
                   request, rules>>

\* profitability = financial_data.get_profitability()
GetProfitability ==
    /\ pc = "profitability"
    /\ IF profitability_raises(cols, rows)
       THEN Fail("KeyError or ValueError") /\ UNCHANGED profitability
       ELSE /\ profitability' = get_profitability(cols, rows)
            /\ pc' = "trend"
            /\ UNCHANGED report
    /\ UNCHANGED <<source, aside, exported, cols, rows, cash_flow, cash_flow_trend, health_score,
                   anomalies, request, rules>>

\* cash_flow_trend = financial_data.get_cash_flow_trend()
GetCashFlowTrend ==
    /\ pc = "trend"
    /\ cash_flow_trend' = get_cash_flow_trend(cols, rows)
    /\ rows' = trend_frame_rows(cols, rows)
    /\ pc' = "health"
    /\ UNCHANGED <<source, aside, exported, cols, cash_flow, profitability, health_score, anomalies,
                   request, rules, report>>

\* health_score = financial_data.get_financial_health_score(): the three
\* sub-metrics are computed again on the data frame as it is now
GetFinancialHealthScore ==
    /\ pc = "health"
    /\ IF cash_flow_raises(cols, rows) \/ profitability_raises(cols, rows)
       THEN Fail("KeyError or ValueError") /\ UNCHANGED <<cols, rows, health_score>>
       ELSE LET f == cash_flow_frame(cols, rows)
            IN  /\ health_score' =
                      get_financial_health_score(
                          get_cash_flow(cols, rows),
                          get_profitability(f.cols, f.rows),
                          get_cash_flow_trend(f.cols, f.rows))
                /\ cols' = f.cols
                /\ rows' = trend_frame_rows(f.cols, f.rows)
                /\ pc' = "anomalies"
                /\ UNCHANGED report
    /\ UNCHANGED <<source, aside, exported, cash_flow, profitability, cash_flow_trend, anomalies,
                   request, rules>>

\* anomalies = financial_data.detect_anomalies()
DetectAnomalies ==
    /\ pc = "anomalies"
    /\ \E a \in detect_anomalies(cols, rows) : anomalies' = a
    /\ pc' = "benchmark"
    /\ UNCHANGED <<source, aside, exported, cols, rows, cash_flow, profitability, cash_flow_trend,
                   health_score, request, rules, report>>

\* benchmark_comparison = BenchmarkAnalysis.compare_to_industry(...), which
\* computes cash flow and profitability again
CompareToIndustry ==
    /\ pc = "benchmark"
    /\ \E industry \in Industries :
          /\ user_industry' = industry
          /\ IF cash_flow_raises(cols, rows) \/ profitability_raises(cols, rows)
             THEN Fail("KeyError or ValueError")
                  /\ UNCHANGED <<cols, rows, benchmark_comparison>>
             ELSE LET f == cash_flow_frame(cols, rows)
                  IN  /\ benchmark_comparison' =
                            compare_to_industry(get_cash_flow(cols, rows),
                                                get_profitability(f.cols, f.rows),
                                                industry)
                      /\ cols' = f.cols
                      /\ rows' = f.rows
                      /\ pc' = "insights"
                      /\ UNCHANGED report
    /\ UNCHANGED <<source, aside, exported, metrics, business_size, ai_insights, recommendations, alerts>>

\* ai_insights = generate_insights(...)
GenerateInsights ==
    /\ pc = "insights"
    /\ LET pm == profitability_metrics_of(profitability)
       IN  IF insights_raise(pm)
           THEN Fail("TypeError") /\ UNCHANGED ai_insights
           ELSE /\ ai_insights' = generate_insights(cash_flow, pm, cash_flow_trend,
                                                    health_score)
                /\ pc' = "recommendations"
                /\ UNCHANGED report
    /\ UNCHANGED <<source, aside, exported, cols, rows, metrics, request, benchmark_comparison,
                   recommendations, alerts>>

\* recommendations = generate_recommendations(...)
GenerateRecommendations ==
    /\ pc = "recommendations"
    /\ \E size \in BusinessSizes :
          /\ business_size' = size
          /\ LET pm == profitability_metrics_of(profitability)
             IN  IF recommendations_raise(pm)
                 THEN Fail("TypeError") /\ UNCHANGED recommendations
                 ELSE /\ recommendations' =
                            generate_recommendations(cash_flow, pm, cash_flow_trend,
                                                     benchmark_comparison, size)
                      /\ pc' = "alerts"
                      /\ UNCHANGED report
    /\ UNCHANGED <<source, aside, exported, cols, rows, metrics, user_industry, benchmark_comparison,
                   ai_insights, alerts>>

\* alerts = create_financial_alerts(...)
CreateFinancialAlerts ==
    /\ pc = "alerts"
    /\ LET pm == profitability_metrics_of(profitability)
       IN  IF alerts_raise(pm)
           THEN Fail("TypeError") /\ UNCHANGED alerts
           ELSE /\ alerts' = create_financial_alerts(cash_flow, pm, anomalies,
                                                     health_score)
                /\ pc' = "assemble"
                /\ UNCHANGED report
    /\ UNCHANGED <<source, aside, exported, cols, rows, metrics, request, benchmark_comparison,
                   ai_insights, recommendations>>

\* analysis_result = {...}; return analysis_result
AssembleReport ==
    /\ pc = "assemble"
    /\ IF executive_summary_raises(cash_flow)
       THEN Fail("KeyError")
       ELSE /\ report' = analysis_result(cols, rows, cash_flow,
                                         profitability_metrics_of(profitability),
                                         cash_flow_trend, health_score, anomalies,
                                         benchmark_comparison, ai_insights,
                                         recommendations, alerts)
            /\ pc' = "done"
    /\ UNCHANGED <<source, aside, exported, cols, rows, metrics, request, rules>>

\* export_analysis(analysis_result, format_type) on what
\* process_financial_data returned
ExportAnalysis ==
    /\ pc = "done"
    /\ \E format_type \in ExportFormats :
          exported' = export_analysis(report, format_type)
    /\ pc' = "exported"
    /\ UNCHANGED <<source, aside, cols, rows, metrics, request, rules, report>>

Next ==
    \/ ReadFile
    \/ StandardizeColumns
    \/ EnsureIncomeExpenses
    \/ CleanData
    \/ GetCashFlow
    \/ GetProfitability
    \/ GetCashFlowTrend
    \/ GetFinancialHealthScore
    \/ DetectAnomalies
    \/ CompareToIndustry
    \/ GenerateInsights
    \/ GenerateRecommendations
    \/ CreateFinancialAlerts
    \/ AssembleReport
    \/ ExportAnalysis

Spec == Init /\ [][Next]_vars

----------------------------------------------------------------------------
(* Concurrent invocations of process_financial_data.  An invocation holds *)
(* its own file, FinancialData and results; the class attribute           *)
(* INDUSTRY_BENCHMARKS is the one object all of them reach.               *)

\* invocations running side by side
NumWorkers == 2
Workers == 1..NumWorkers

\* a file whose rows span two months
TwoMonths ==
    [cols |-> <<h_Date, h_Income, h_Expenses>>,
     rows |-> << <<Date(1, 2), Num(50), Num(12)>>,
                 <<Date(2, 1), Num(50), Num(0)>> >>]

ConcurrentFiles == {ScenarioA, ScenarioB, TwoMonths}
ConcurrentIndustries == {"technology", "unlisted"}

\* an invocation at its entry
Invocation(file, industry, size) ==
    [pc |-> "construct", file |-> file, industry |-> industry, size |-> size,
     frame |-> NoResult, metrics |-> NoResult, benchmarks |-> NoResult,
     comparison |-> NoResult, rules |-> NoResult, report |-> NoResult]

\* the variables of the single request, at rest
no_single_request ==
    /\ pc = "idle"
    /\ src_cols = <<>> /\ src_rows = <<>> /\ cols = <<>> /\ rows = <<>>
    /\ cash_flow = NoResult /\ profitability = NoResult
    /\ cash_flow_trend = NoResult /\ health_score = NoResult
    /\ anomalies = NoResult /\ anomalies_again = NoResult
    /\ cash_flow_again = NoResult
    /\ user_industry = Unset /\ business_size = Unset
    /\ benchmark_comparison = NoResult /\ ai_insights = NoResult
    /\ recommendations = NoResult /\ alerts = NoResult
    /\ report = NoResult /\ exported = NoResult

single_request == <<pc, source, cols, rows, metrics, request, rules, report,
                    exported, anomalies_again, cash_flow_again, gemini>>

InitConcurrent ==
    /\ no_single_request
    /\ gemini = NoResult
    /\ benchmark_table = INDUSTRY_BENCHMARKS
    /\ workers \in [Workers -> {Invocation(f, i, "small") :
                                   f \in ConcurrentFiles, i \in ConcurrentIndustries}]

\* invocation w moves on, or ends in its except clause
Advance(w, stage, field, value) ==
    workers' = IF stage.raised
               THEN [workers EXCEPT ![w].pc = "done",
                                    ![w].report = error_response(stage.error_type)]
               ELSE [workers EXCEPT ![w].pc = field.next,
                                    ![w][field.name] = value]

\* financial_data = FinancialData(file)
W_Construct(w) ==
    /\ workers[w].pc = "construct"
    /\ LET d == construct(workers[w].file)
       IN  Advance(w, d, [name |-> "frame", next |-> "metrics"],
                   IF d.raised THEN NoResult ELSE [cols |-> d.cols, rows |-> d.rows])
    /\ UNCHANGED <<single_request, benchmark_table>>

\* lines 21-25 on the invocation's own data frame
W_Metrics(w) ==
    /\ workers[w].pc = "metrics"
    /\ LET m == compute_metrics(workers[w].frame.cols, workers[w].frame.rows)
       IN  workers' =
             IF m.raised
             THEN [workers EXCEPT ![w].pc = "done",
                                  ![w].report = error_response(m.error_type)]
             ELSE [workers EXCEPT ![w].pc = "lookup",
                                  ![w].metrics = m,
                                  ![w].frame = [cols |-> m.cols, rows |-> m.rows]]
    /\ UNCHANGED <<single_request, benchmark_table>>

\* line 441: the read of the shared class attribute
W_Lookup(w) ==
    /\ workers[w].pc = "lookup"
    /\ workers' = [workers EXCEPT
                      ![w].pc = "compare",
                      ![w].benchmarks = get_benchmarks(benchmark_table,
                                                       workers[w].industry)]
    /\ benchmark_table' = table_after_compare(benchmark_table, workers[w].industry)
    /\ UNCHANGED single_request

\* lines 443-478 with the benchmarks looked up
W_Compare(w) ==
    /\ workers[w].pc = "compare"
    /\ LET c == compare_frame(workers[w].benchmarks,
                              workers[w].frame.cols, workers[w].frame.rows)
       IN  workers' =
             IF c.raised
             THEN [workers EXCEPT ![w].pc = "done",
                                  ![w].report = error_response(c.error_type)]
             ELSE [workers EXCEPT ![w].pc = "rules",
                                  ![w].comparison = c.benchmark_comparison,
                                  ![w].frame = [cols |-> c.cols, rows |-> c.rows]]
    /\ UNCHANGED <<single_request, benchmark_table>>

\* lines 47-51
W_Rules(w) ==
    /\ workers[w].pc = "rules"
    /\ LET r == compute_rules(workers[w].metrics, workers[w].comparison,
                              workers[w].size)
       IN  Advance(w, r, [name |-> "rules", next |-> "assemble"], r)
    /\ UNCHANGED <<single_request, benchmark_table>>

\* lines 54-81
W_Assemble(w) ==
    /\ workers[w].pc = "assemble"
    /\ LET a == assemble(workers[w].frame.cols, workers[w].frame.rows,
                         workers[w].metrics, workers[w].comparison, workers[w].rules)
       IN  Advance(w, a, [name |-> "report", next |-> "done"],
                   IF a.raised THEN NoResult ELSE a.report)
    /\ UNCHANGED <<single_request, benchmark_table>>

NextConcurrent ==
    \E w \in Workers :
        \/ W_Construct(w)
        \/ W_Metrics(w)
        \/ W_Lookup(w)
        \/ W_Compare(w)
        \/ W_Rules(w)
        \/ W_Assemble(w)

SpecConcurrent == InitConcurrent /\ [][NextConcurrent]_vars

----------------------------------------------------------------------------
(* GeminiFinancialAnalyzer (src/backend/gemini_helper.py).  A Python value *)
(* is a record tagged by its type under py.                                *)

PyNone     == [py |-> "None"]
PyStr(s)   == [py |-> "str", s |-> s]
PyList(xs) == [py |-> "list", items |-> xs]
PyDict     == [py |-> "dict"]

\* _fallback_column_detection, line 109
date_keywords == << c_date, <<"t","i","m","e">>, <<"p","e","r","i","o","d">>,
                    c_month, <<"d","a","y">>, <<"y","e","a","r">>,
                    <<"t","i","m","e","s","t","a","m","p">> >>

\* income_keywords of _fallback_column_detection, line 116
gemini_income_keywords == << c_income, c_revenue, <<"s","a","l","e","s">>,
                             <<"e","a","r","n","i","n","g">>,
                             <<"r","e","c","e","i","v","a","b","l","e">>,
                             <<"c","r","e","d","i","t">> >>

\* expense_keywords of _fallback_column_detection, line 123
gemini_expense_keywords == << <<"e","x","p","e","n","s","e">>, <<"c","o","s","t">>,
                              <<"s","p","e","n","d","i","n","g">>,
                              <<"p","a","y","m","e","n","t">>,
                              <<"p","a","y","a","b","l","e">>,
                              <<"d","e","b","i","t">> >>

\* line 130
amount_keywords == << c_amount, <<"v","a","l","u","e">>, <<"t","o","t","a","l">>,
                      <<"s","u","m">>, <<"b","a","l","a","n","c","e">> >>

\* line 137
category_keywords == << c_category, <<"t","y","p","e">>, <<"c","l","a","s","s">>,
                        <<"g","r","o","u","p">>, <<"a","c","c","o","u","n","t">> >>

\* line 144
desc_keywords == << <<"d","e","s","c","r","i","p","t","i","o","n">>,
                    <<"d","e","t","a","i","l">>, <<"n","o","t","e">>,
                    <<"m","e","m","o">>,
                    <<"p","a","r","t","i","c","u","l","a","r">> >>

\* one detection loop of _fallback_column_detection: the first column whose
\* lower-cased name contains a keyword, under its own name, else None
first_match(columns, keywords) ==
    LET hits == {i \in 1..Len(columns) : ContainsAny(keywords, Lower(columns[i]))}
    IN  IF hits = {} THEN PyNone
        ELSE PyStr(columns[CHOOSE i \in hits : \A j \in hits : i <= j])

t_medium == <<"m","e","d","i","u","m">>

\* _fallback_column_detection(columns)
fallback_column_detection(columns) ==
    [date_column        |-> first_match(columns, date_keywords),
     income_column      |-> first_match(columns, gemini_income_keywords),
     expense_column     |-> first_match(columns, gemini_expense_keywords),
     amount_column      |-> first_match(columns, amount_keywords),
     category_column    |-> first_match(columns, category_keywords),
     description_column |-> first_match(columns, desc_keywords),
     confidence         |-> PyStr(t_medium)]

Quote == "\""

\* the texts the model answers with
r_empty  == <<>>
r_prose  == <<"S","u","r","e",","," ","h","e","r","e"," ","i","t"," ","i","s">>
r_labelled == <<"j","s","o","n",":"," ","[","]">>
r_list   == <<" ","[",Quote,"c","u","t"," ","c","o","s","t","s",Quote,"]"," ">>
r_nolist == <<"[","]">>
r_object == <<"{","}">>
r_null   == <<"n","u","l","l">>
r_string == <<Quote,"o","k",Quote>>

ResponseTexts == {r_empty, r_prose, r_labelled, r_list, r_nolist, r_object,
                  r_null, r_string}

\* a JSON string of letters and blanks
IsJsonString(t) ==
    /\ Len(t) >= 2
    /\ t[1] = Quote /\ t[Len(t)] = Quote
    /\ \A i \in 2..(Len(t) - 1) :
          \/ t[i] = " "
          \/ \E a \in 1..Len(LowerAlpha) : LowerAlpha[a] = LowerChar(t[i])

Inner(t) == SubSeq(t, 2, Len(t) - 1)

\* json.loads over the documents of ResponseTexts: null, a string, the
\* empty object, a list of at most one string; any other text of the set is
\* no JSON document and raises JSONDecodeError
json_loads(t) ==
    IF t = r_null THEN [raised |-> FALSE, value |-> PyNone]
    ELSE IF t = r_object THEN [raised |-> FALSE, value |-> PyDict]
    ELSE IF IsJsonString(t) THEN [raised |-> FALSE, value |-> PyStr(Inner(t))]
    ELSE IF t = r_nolist THEN [raised |-> FALSE, value |-> PyList(<<>>)]
    ELSE IF Len(t) >= 2 /\ t[1] = "[" /\ t[Len(t)] = "]" /\ IsJsonString(Inner(t))
         THEN [raised |-> FALSE, value |-> PyList(<<PyStr(Inner(Inner(t)))>>)]
    ELSE [raised |-> TRUE, value |-> PyNone]

\* what happens inside the try block of a call: building the prompt raises,
\* generate_content (or response.text) raises, or the model answers a text
Responses ==
    {[kind |-> "prompt raises", text |-> <<>>],
     [kind |-> "generate_content raises", text |-> <<>>]}
    \cup {[kind |-> "text", text |-> t] : t \in ResponseTexts}

\* the try block up to json.loads(response.text.strip())
attempt(response) ==
    IF response.kind # "text" THEN [raised |-> TRUE, value |-> PyNone]
    ELSE json_loads(Strip(response.text))

\* MODEL of the module: None without an API key or when configure raised
Configurations == {"None", "gemini-pro"}

\* a call returns a value to its caller
Return(value) == [propagated |-> FALSE, value |-> value]

\* detect_column_mapping(df_sample, columns), lines 45-89
detect_column_mapping(model, columns, response) ==
    IF model = "None" THEN Return(fallback_column_detection(columns))
    ELSE IF attempt(response).raised
         THEN Return(fallback_column_detection(columns))
         ELSE Return(attempt(response).value)

\* analyze_financial_data(df, column_mapping), lines 157-222
analyze_financial_data(model, response) ==
    IF model = "None"
    THEN Return([py |-> "dict",
                 analysis |-> <<"AI analysis unavailable - using basic analysis">>])
    ELSE IF attempt(response).raised
         THEN Return([py |-> "dict",
                      analysis |-> <<"AI analysis error: ", response.kind>>])
         ELSE Return(attempt(response).value)

t_None == <<"N","o","n","e">>

\* str(insights) of a parsed document that is no list
py_str(v) ==
    CASE v.py = "str"  -> v.s
      [] v.py = "None" -> t_None
      [] OTHER         -> r_object

\* line 261 with the list test dropped
as_list_unchecked(insights) == insights

\* line 261: insights if isinstance(insights, list) else [str(insights)]
as_list(insights) ==
    IF insights.py = "list" THEN insights ELSE PyList(<<PyStr(py_str(insights))>>)

\* generate_custom_insights(cash_flow, profitability, trends), lines 229-265
generate_custom_insights(model, response) ==
    IF model = "None" THEN Return(PyList(<<"AI insights unavailable">>))
    ELSE IF attempt(response).raised
         THEN Return(PyList(<< <<"Unable to generate AI insights: ", response.kind>> >>))
         ELSE Return(as_list(attempt(response).value))

\* the column lists detect_column_mapping is called with
ColumnLists ==
    {Schemas[k].headers : k \in 1..Len(Schemas)} \cup {ScenarioA.cols, ScenarioB.cols}

\* the calls of the model: columns matter to detect_column_mapping alone
GeminiCalls ==
    {[fn |-> "detect_column_mapping", columns |-> c] : c \in ColumnLists}
    \cup {[fn |-> f, columns |-> <<>>] :
             f \in {"analyze_financial_data", "generate_custom_insights"}}

InitGemini ==
    /\ no_single_request
    /\ benchmark_table = INDUSTRY_BENCHMARKS
    /\ workers = <<>>
    /\ \E m \in Configurations :
          gemini = [stage |-> "idle", MODEL |-> m, fn |-> "", columns |-> <<>>,
                    response |-> NoResult, result |-> NoResult]

not_gemini == <<pc, source, cols, rows, metrics, request, rules, report,
                exported, anomalies_again, cash_flow_again, workers,
                benchmark_table>>

\* what the function under way returns for what happened in its try block
gemini_result(response) ==
    CASE gemini.fn = "detect_column_mapping" ->
             detect_column_mapping(gemini.MODEL, gemini.columns, response)
      [] gemini.fn = "analyze_financial_data" ->
             analyze_financial_data(gemini.MODEL, response)
      [] OTHER -> generate_custom_insights(gemini.MODEL, response)

\* a caller enters one of the three functions
G_Call(call) ==
    /\ gemini.stage = "idle"
    /\ gemini' = [gemini EXCEPT !.stage = "called", !.fn = call.fn,
                                !.columns = call.columns]
    /\ UNCHANGED not_gemini

\* if MODEL is None: the early return of the function
G_Unconfigured ==
    /\ gemini.stage = "called"
    /\ gemini.MODEL = "None"
    /\ gemini' = [gemini EXCEPT !.stage = "returned",
                                !.result = gemini_result(NoResult)]
    /\ UNCHANGED not_gemini

\* the try block runs: the prompt is built and the model is asked
G_Generate(response) ==
    /\ gemini.stage = "called"
    /\ gemini.MODEL # "None"
    /\ gemini' = [gemini EXCEPT !.stage = "responded", !.response = response]
    /\ UNCHANGED not_gemini

\* the answer is parsed and returned, or the except clause returns
G_Return ==
    /\ gemini.stage = "responded"
    /\ gemini' = [gemini EXCEPT !.stage = "returned",
                                !.result = gemini_result(gemini.response)]
    /\ UNCHANGED not_gemini

NextGemini ==
    \/ \E call \in GeminiCalls : G_Call(call)
    \/ G_Unconfigured
    \/ \E response \in Responses : G_Generate(response)
    \/ G_Return

SpecGemini == InitGemini /\ [][NextGemini]_vars

----------------------------------------------------------------------------
(* detect_anomalies called twice on one FinancialData.  The model does not *)
(* compute the trees of the forest: the first call may flag any of the     *)
(* flaggable sets.  What the second call may flag depends on how the       *)
(* forest draws its random numbers.                                        *)

\* IsolationForest(contamination=0.1, random_state=42), line 192
random_state == 42

\* a forest that draws from the generator of the process, wherever the
\* earlier calls left it (random_state=None)
forest_outcomes_unseeded(seed, before, cs, rs) == detect_anomalies(cs, rs)

\* what detect_anomalies can return on the data frame (cs, rs) when an
\* earlier call on the same data frame returned before (NoResult: there was
\* none): an integer seed starts a generator of its own in every call, so
\* the same trees are drawn over the same rows and the same rows are flagged
forest_outcomes(seed, before, cs, rs) ==
    IF seed \in Nat /\ before # NoResult THEN {before}
    ELSE detect_anomalies(cs, rs)

InitRepeat ==
    /\ pc = "r_construct"
    /\ \E f \in Files : src_cols = f.cols /\ src_rows = f.rows
    /\ cols = <<>> /\ rows = <<>>
    /\ cash_flow = NoResult /\ profitability = NoResult
    /\ cash_flow_trend = NoResult /\ health_score = NoResult
    /\ anomalies = NoResult /\ anomalies_again = NoResult
    /\ cash_flow_again = NoResult
    /\ user_industry = Unset /\ business_size = Unset
    /\ benchmark_comparison = NoResult /\ ai_insights = NoResult
    /\ recommendations = NoResult /\ alerts = NoResult
    /\ report = NoResult /\ exported = NoResult
    /\ workers = <<>>
    /\ benchmark_table = INDUSTRY_BENCHMARKS
    /\ gemini = NoResult

not_repeat == <<source, cash_flow, profitability, cash_flow_trend, health_score,
                request, rules, report, exported, workers, benchmark_table,
                cash_flow_again, gemini>>

\* financial_data = FinancialData(file)
R_Construct ==
    /\ pc = "r_construct"
    /\ LET d == construct([cols |-> src_cols, rows |-> src_rows])
       IN  IF d.raised
           THEN pc' = "r_raised" /\ UNCHANGED <<cols, rows>>
           ELSE pc' = "r_ready" /\ cols' = d.cols /\ rows' = d.rows
    /\ UNCHANGED <<not_repeat, anomalies, anomalies_again>>

\* financial_data.detect_anomalies(); lines 191-196 read the data frame and
\* leave it as it is
R_Detect ==
    /\ pc = "r_ready"
    /\ anomalies' \in forest_outcomes(random_state, NoResult, cols, rows)
    /\ pc' = "r_once"
    /\ UNCHANGED <<not_repeat, cols, rows, anomalies_again>>

\* financial_data.detect_anomalies() once more
R_DetectAgain ==
    /\ pc = "r_once"
    /\ anomalies_again' \in forest_outcomes(random_state, anomalies, cols, rows)
    /\ pc' = "r_twice"
    /\ UNCHANGED <<not_repeat, cols, rows, anomalies>>

NextRepeat ==
    \/ R_Construct
    \/ R_Detect
    \/ R_DetectAgain

SpecRepeat == InitRepeat /\ [][NextRepeat]_vars

----------------------------------------------------------------------------
(* The totals of get_cash_flow in float64: pd.to_numeric gives the amount  *)
(* columns the dtype float64 (line 73), and Series.sum() adds the values   *)
(* of a short column one after the other, in row order, each addition      *)
(* rounded to the nearest float64, ties to even.  A positive float64 is    *)
(* m * 2^e with m a sequence of mantissa_bits bits, lowest first, the       *)
(* highest being 1.                                                        *)

\* the bits of the significand of a float64
mantissa_bits == 53

\* the rows of the dated files summed in float64
FloatRows == 3

FloatZero == [m |-> <<>>, e |-> 0]

BitAt(b, i) == IF i <= Len(b) THEN b[i] ELSE 0

\* the sum of two naturals given by their bits
RECURSIVE AddBitsFrom(_, _, _, _)
AddBitsFrom(a, b, i, carry) ==
    IF i > Len(a) /\ i > Len(b)
    THEN IF carry = 1 THEN <<1>> ELSE <<>>
    ELSE LET x == BitAt(a, i) + BitAt(b, i) + carry
         IN  <<x % 2>> \o AddBitsFrom(a, b, i + 1, x \div 2)

AddBits(a, b) == AddBitsFrom(a, b, 1, 0)

\* b * 2^k
ShiftLeft(b, k) == [i \in 1..(Len(b) + k) |-> IF i <= k THEN 0 ELSE b[i - k]]

\* the float64 nearest to b * 2^e (ties to even), b given by its bits with
\* the highest 1
RoundToFloat(b, e) ==
    IF Len(b) <= mantissa_bits
    THEN [m |-> ShiftLeft(b, mantissa_bits - Len(b)),
          e |-> e - (mantissa_bits - Len(b))]
    ELSE LET k      == Len(b) - mantissa_bits
             kept   == SubSeq(b, k + 1, Len(b))
             half   == b[k] = 1
             sticky == \E i \in 1..(k - 1) : b[i] = 1
             up     == half /\ (sticky \/ kept[1] = 1)
             r      == IF up THEN AddBits(kept, <<1>>) ELSE kept
         IN  IF Len(r) > mantissa_bits
             THEN [m |-> SubSeq(r, 2, Len(r)), e |-> e + k + 1]
             ELSE [m |-> r, e |-> e + k]

\* x + y in float64, for x, y >= 0
float_add(x, y) ==
    IF x = FloatZero THEN y
    ELSE IF y = FloatZero THEN x
    ELSE LET e == IF x.e < y.e THEN x.e ELSE y.e
         IN  RoundToFloat(AddBits(ShiftLeft(x.m, x.e - e), ShiftLeft(y.m, y.e - e)), e)

\* Series.sum() of a short float64 column: the values added in row order
RECURSIVE float_sum(_)
float_sum(s) ==
    IF s = <<>> THEN FloatZero
    ELSE float_add(float_sum(SubSeq(s, 1, Len(s) - 1)), s[Len(s)])

\* the bits of a natural written in hexadecimal, highest digit first
RECURSIVE HexBits(_)
HexBits(h) ==
    IF h = <<>> THEN <<>>
    ELSE LET d == h[Len(h)]
         IN  <<d % 2, (d \div 2) % 2, (d \div 4) % 2, (d \div 8) % 2>>
             \o HexBits(SubSeq(h, 1, Len(h) - 1))

\* b without its leading zeros
RECURSIVE TrimBits(_)
TrimBits(b) ==
    IF b = <<>> \/ b[Len(b)] = 1 THEN b ELSE TrimBits(SubSeq(b, 1, Len(b) - 1))

\* the float64 read from the texts 0.1, 0.2 and 0.3 of a file:
\* 0x1.999999999999ap-4, 0x1.999999999999ap-3 and 0x1.3333333333333p-2
f0_1 == [m |-> TrimBits(HexBits(<<1, 9, 9, 9, 9, 9, 9, 9, 9, 9, 9, 9, 9, 10>>)), e |-> -56]
f0_2 == [m |-> TrimBits(HexBits(<<1, 9, 9, 9, 9, 9, 9, 9, 9, 9, 9, 9, 9, 10>>)), e |-> -55]
f0_3 == [m |-> TrimBits(HexBits(<<1, 3, 3, 3, 3, 3, 3, 3, 3, 3, 3, 3, 3, 3>>)), e |-> -54]

FloatAmounts == {f0_1, f0_2, f0_3}

\* the column name of the data frame, top to bottom
ColumnValues(cs, rs, name) == [i \in 1..Len(rs) |-> Cell(cs, rs[i], name).n]

\* get_cash_flow on a data frame with float64 income and expenses, lines
\* 84-86 and 104-105: the two totals (every other entry of the result is
\* computed from them)
get_cash_flow_float64(cs, rs) ==
    [tag            |-> "ok",
     total_income   |-> float_sum(ColumnValues(cs, rs, c_income)),
     total_expenses |-> float_sum(ColumnValues(cs, rs, c_expenses))]

\* the orders in which FloatRows months can stand in a file
MonthOrders ==
    {d \in [1..FloatRows -> 1..FloatRows] : \A i, j \in 1..FloatRows : d[i] = d[j] => i = j}

\* files of one row per month, in any order, with amounts in tenths
FloatFiles ==
    {[cols |-> <<h_Date, h_Income, h_Expenses>>,
      rows |-> [i \in 1..FloatRows |->
                  <<Date(d[i], 1), Num(income[i]), Num(f0_1)>>]] :
        d \in MonthOrders, income \in [1..FloatRows -> FloatAmounts]}

InitFloat ==
    /\ pc = "f_construct"
    /\ \E f \in FloatFiles : src_cols = f.cols /\ src_rows = f.rows
    /\ cols = <<>> /\ rows = <<>>
    /\ cash_flow = NoResult /\ profitability = NoResult
    /\ cash_flow_trend = NoResult /\ health_score = NoResult
    /\ anomalies = NoResult /\ anomalies_again = NoResult
    /\ cash_flow_again = NoResult
    /\ user_industry = Unset /\ business_size = Unset
    /\ benchmark_comparison = NoResult /\ ai_insights = NoResult
    /\ recommendations = NoResult /\ alerts = NoResult
    /\ report = NoResult /\ exported = NoResult
    /\ workers = <<>>
    /\ benchmark_table = INDUSTRY_BENCHMARKS
    /\ gemini = NoResult

not_float == <<source, profitability, cash_flow_trend, health_score, anomalies,
               request, rules, report, exported, workers, benchmark_table,
               anomalies_again, gemini>>

\* financial_data = FinancialData(file)
F_Construct ==
    /\ pc = "f_construct"
    /\ LET d == construct([cols |-> src_cols, rows |-> src_rows])
       IN  IF d.raised
           THEN pc' = "f_raised" /\ UNCHANGED <<cols, rows>>
           ELSE pc' = "f_cash_flow" /\ cols' = d.cols /\ rows' = d.rows
    /\ UNCHANGED <<not_float, cash_flow, cash_flow_again>>

\* cash_flow = financial_data.get_cash_flow() (services.py line 21): the
\* value the report shows under financial_metrics
F_GetCashFlow ==
    /\ pc = "f_cash_flow"
    /\ cash_flow' = get_cash_flow_float64(cols, rows)
    /\ pc' = "f_trend"
    /\ UNCHANGED <<not_float, cols, rows, cash_flow_again>>

\* get_cash_flow_trend, line 146: self.df = self.df.sort_values('date')
F_SortValues ==
    /\ pc = "f_trend"
    /\ rows' = trend_frame_rows(cols, rows)
    /\ pc' = "f_health"
    /\ UNCHANGED <<not_float, cols, cash_flow, cash_flow_again>>

\* get_financial_health_score, line 213: cash_flow_data = self.get_cash_flow()
F_HealthCashFlow ==
    /\ pc = "f_health"
    /\ cash_flow_again' = get_cash_flow_float64(cols, rows)
    /\ pc' = "f_benchmark"
    /\ UNCHANGED <<not_float, cols, rows, cash_flow>>

\* compare_to_industry, line 443: cash_flow = financial_data.get_cash_flow()
F_BenchmarkCashFlow ==
    /\ pc = "f_benchmark"
    /\ cash_flow_again' = get_cash_flow_float64(cols, rows)
    /\ pc' = "f_done"
    /\ UNCHANGED <<not_float, cols, rows, cash_flow>>

NextFloat ==
    \/ F_Construct
    \/ F_GetCashFlow
    \/ F_SortValues
    \/ F_HealthCashFlow
    \/ F_BenchmarkCashFlow

SpecFloat == InitFloat /\ [][NextFloat]_vars

----------------------------------------------------------------------------
(* The claims *)

returned == pc \in {"done", "exported"}
returned_report == returned /\ ~report.error

\* the data frame handed to _clean_data, recomputed from the uploaded file
pre_clean ==
    ensure_income_expenses(
        standardize_columns([j \in 1..Len(src_cols) |-> NormalizeHeader(src_cols[j])]),
        src_rows)

\* the data frame is normalised: FinancialData.__init__ has returned
normalized ==
    pc \notin {"read", "standardize", "ensure", "clean"}
    /\ ~(returned /\ cash_flow.tag = "none")

\* C1: whenever get_profitability returned its error value (revenue <= 0)
\* and get_cash_flow returned a populated result, process_financial_data
\* returns a report, not the error response, whose profitability section is
\* the 'N/A' placeholder and whose cash_flow and alerts sections are populated.
C1_ProfitabilityFailureKeepsReport ==
    (returned /\ profitability.tag = "error" /\ cash_flow.tag = "ok")
    => /\ ~report.error
       /\ report.financial_metrics.profitability.tag = "na"
       /\ report.financial_metrics.cash_flow.tag = "ok"
       /\ report.alerts.severity_levels.overall_risk
             \in {"very_high", "high", "medium", "low", "minimal"}

\* C2: whenever at least one row survived cleaning and get_cash_flow returned
\* its error value, process_financial_data returns a report, not the error
\* response, with that error value in the cash_flow section and the other
\* sections present.
C2_CashFlowFailureKeepsReport ==
    (returned /\ cash_flow.tag = "error" /\ Len(rows) > 0)
    => /\ ~report.error
       /\ report.financial_metrics.cash_flow.tag = "error"
       /\ report.ai_insights = ai_insights
       /\ report.recommendations = recommendations
       /\ report.alerts = alerts
       /\ report.action_items = generate_action_items(recommendations, alerts)
       /\ report.executive_summary.overall_health = health_score.grade

\* C3: on every normalised data frame none of the metric calculators raises:
\* get_cash_flow and get_profitability return a value (get_cash_flow_trend,
\* detect_anomalies and get_financial_health_score raise only through them).
C3_MetricsNeverRaise ==
    (normalized /\ ~returned)
    => ~cash_flow_raises(cols, rows) /\ ~profitability_raises(cols, rows)

\* C4: for the amount/category file of Scenario B get_cash_flow gives
\* total_income = 5000, total_expenses = 1200 and net_cash_flow = 3800.
C4_ScenarioBCashFlow ==
    (src_cols = ScenarioB.cols /\ src_rows = ScenarioB.rows /\ cash_flow.tag # "none")
    => /\ cash_flow.tag = "ok"
       /\ cash_flow.total_income = 5000
       /\ cash_flow.total_expenses = 1200
       /\ cash_flow.net_cash_flow = 3800

\* the rows C5 says cleaning keeps: a parsable date and, among the resolved
\* numeric columns, at least one that is not null after coercion
rows_with_a_signal(cs, rs) ==
    {i \in 1..Len(rs) :
        /\ HasCol(cs, c_date) => Cell(cs, rs[i], c_date).t = "date"
        /\ \/ PresentNumerical(cs) = {}
           \/ \E k \in PresentNumerical(cs) : Cell(cs, rs[i], numerical_cols[k]).t = "num"}

\* C5: after cleaning the data frame holds every row with a parsable date
\* and at least one resolved numeric column that is not null after coercion;
\* only the other rows are dropped.
C5_CleaningKeepsRowsWithASignal ==
    (pc = "cash_flow" /\ ~pre_clean.raised)
    => LET coerced == clean_numbers(pre_clean.cols,
                                    clean_dates(pre_clean.cols, pre_clean.rows))
       IN  rows = KeepRows(coerced, rows_with_a_signal(pre_clean.cols, coerced), 1)

\* C6: whenever get_cash_flow succeeds, cash_flow_ratio is the infinity
\* sentinel exactly when total_expenses = 0 and total_income > 0; with
\* non-zero total_expenses it is the quotient total_income / total_expenses,
\* and with both totals zero it is not the sentinel.
C6_RatioSentinel ==
    cash_flow.tag = "ok"
    => /\ cash_flow.cash_flow_ratio.inf
            <=> (cash_flow.total_expenses = 0 /\ cash_flow.total_income > 0)
       /\ cash_flow.total_expenses # 0
            => /\ ~cash_flow.cash_flow_ratio.inf
               /\ cash_flow.cash_flow_ratio.num * cash_flow.total_expenses
                     = cash_flow.total_income * cash_flow.cash_flow_ratio.den

\* the file has exactly the columns date, income and expenses
is_date_income_expenses ==
    [j \in 1..Len(src_cols) |-> NormalizeHeader(src_cols[j])]
        = <<c_date, c_income, c_expenses>>

\* the sum of source column j over the source rows with a parsable date,
\* null and unparsable cells skipped
SourceSum(j) ==
    SumSeq([i \in 1..Len(src_rows) |->
              IF src_rows[i][1].t = "date" /\ CleanNumeric(src_rows[i][j]).t = "num"
              THEN CleanNumeric(src_rows[i][j]).n ELSE 0])

\* C7: for a file with the columns date, income and expenses get_cash_flow
\* reports total_income = the sum of the source income column,
\* total_expenses = the sum of the source expenses column and
\* net_cash_flow = total_income - total_expenses; Scenario A gives 3800 and
\* the ratio 5000/1200.
C7_SourceTotals ==
    (is_date_income_expenses /\ cash_flow.tag # "none")
    => /\ cash_flow.tag = "ok"
       /\ cash_flow.total_income = SourceSum(2)
       /\ cash_flow.total_expenses = SourceSum(3)
       /\ cash_flow.net_cash_flow = cash_flow.total_income - cash_flow.total_expenses
       /\ (src_rows = ScenarioA.rows
            => /\ cash_flow.net_cash_flow = 3800
               /\ Eq(cash_flow.cash_flow_ratio, 5000, 1200))

\* C8: the score get_financial_health_score returns lies in 0..100, and for
\* every valuation of the contributing conditions (net cash flow > 0, ratio >
\* 1.2, margin above 0.05, 0.15, 0.30, slope > 0, R2 > 0.7, volatility below
\* 20% and 10% of the mean of |total income| and |total expenses|), turning
\* one condition from false to true with the others fixed never lowers it.
C8_HealthScoreRangeMonotone ==
    /\ health_score.tag = "ok"
         => /\ health_score.score \in 0..100
            /\ health_score.score = score_of(health_score.conditions)
            /\ \A k \in ConditionNames :
                  ~health_score.conditions[k]
                  => score_of([health_score.conditions EXCEPT ![k] = TRUE])
                        >= health_score.score
    /\ pc = "anomalies"
         => \A c \in [ConditionNames -> BOOLEAN] :
               /\ score_of(c) \in 0..100
               /\ \A k \in ConditionNames :
                     ~c[k] => score_of([c EXCEPT ![k] = TRUE]) >= score_of(c)

\* a score strictly between the ends, computed from a populated trend, that
\* one more condition would raise
C8_Witness ==
    /\ health_score.tag = "ok"
    /\ cash_flow_trend.tag = "ok"
    /\ health_score.score > 0
    /\ health_score.score < 100
    /\ \E k \in ConditionNames :
          /\ ~health_score.conditions[k]
          /\ score_of([health_score.conditions EXCEPT ![k] = TRUE]) > health_score.score

\* C9: get_cash_flow_trend returns an error value, carrying no slope,
\* forecast or trajectory, whenever the data frame has no date column and
\* whenever all its rows fall in one calendar month; a populated trend has at
\* least 2 monthly buckets.
C9_TrendNeedsDateAndTwoMonths ==
    cash_flow_trend.tag # "none"
    => /\ cash_flow_trend.tag \in {"ok", "error"}
       /\ ~HasCol(cols, c_date) => cash_flow_trend.tag = "error"
       /\ (HasCol(cols, c_date) /\ Cardinality(Months(cols, rows)) <= 1)
            => cash_flow_trend.tag = "error"
       /\ cash_flow_trend.tag = "error" => DOMAIN cash_flow_trend = {"tag", "error"}
       /\ cash_flow_trend.tag = "ok"
            => /\ HasCol(cols, c_date)
               /\ Len(cash_flow_trend.monthly_data) >= 2
               /\ Cardinality(Months(cols, rows)) >= 2

\* several dated rows with summable columns, all in one calendar month, and
\* the trend is an error value
C9_Witness ==
    /\ cash_flow_trend.tag = "error"
    /\ HasCol(cols, c_date)
    /\ agg_cols(cols) # {}
    /\ Len(rows) >= 2
    /\ Cardinality(Months(cols, rows)) = 1

\* C10: detect_anomalies returns an error value exactly when fewer than 10
\* rows survived cleaning or the data frame has no amount column; with 10 or
\* more rows and an amount column it returns a populated report, and 9 rows
\* always give the error value.
C10_AnomalyErrorIffFewRowsOrNoAmount ==
    anomalies.tag # "none"
    => /\ anomalies.tag \in {"ok", "error"}
       /\ anomalies.tag = "error" <=> (Len(rows) < 10 \/ ~HasCol(cols, c_amount))
       /\ Len(rows) = 9 => anomalies.tag = "error"
       /\ anomalies.tag = "ok" => anomalies.anomaly_count = Len(anomalies.anomaly_indices)

\* 9 rows with an amount column survived cleaning and the result is the
\* error value
C10_Witness ==
    /\ anomalies.tag = "error"
    /\ Len(rows) = 9
    /\ HasCol(cols, c_amount)

\* the business sizes the specification enumerates
EnumeratedSizes == {"micro", "small", "medium", "large"}

\* C11: for a business_size outside micro, small, medium, large the
\* recommendations, and the action items of the report, are those computed
\* for business_size 'small' on the same metrics.
C11_UnknownSizeFallsBackToSmall ==
    (recommendations # NoResult /\ business_size \notin EnumeratedSizes)
    => LET as_small == generate_recommendations(
                           cash_flow, profitability_metrics_of(profitability),
                           cash_flow_trend, benchmark_comparison, "small")
       IN  /\ recommendations = as_small
           /\ returned_report
                => report.action_items = generate_action_items(as_small, alerts)

\* C12: an error response of process_financial_data carries an error kind
\* and a message, and no piece of its message or of its suggestions is the
\* text of the exception that caused it.
C12_ErrorResponseHidesException ==
    (returned /\ report.error)
    => /\ report.error_type # ""
       /\ report.message # <<>>
       /\ \A k \in 1..Len(report.message) :
             report.message[k] # str_e(report.error_type)
       /\ \A s \in 1..Len(report.suggestions) :
             \A k \in 1..Len(report.suggestions[s]) :
                report.suggestions[s][k] # str_e(report.error_type)

\* the steps that call a metric calculator or compare_to_industry
metric_step ==
    pc \in {"cash_flow", "profitability", "trend", "health", "anomalies", "benchmark"}

\* C13: once the data frame is normalised, a call of get_cash_flow,
\* get_profitability, get_cash_flow_trend, get_financial_health_score,
\* detect_anomalies or compare_to_industry leaves its columns and the values
\* of every row as they were; the only change is the ascending reorder of
\* the rows by date.
C13_MetricsLeaveFrameAlone ==
    [][metric_step
         => /\ cols' = cols
            /\ rows' = rows \/ rows' = sort_values_date(cols, rows)]_vars

\* a report was exported as 'csv' or 'summary'
exported_report ==
    pc = "exported" /\ ~report.error /\ exported.tag \notin {"json", "object"}

\* the cash-flow amount (cents) and the profit margin (tenths of a percent)
\* an export shows
shown_cash_flow ==
    IF exported.tag = "csv" THEN exported.cash_flow[1] ELSE exported.cash_flow
shown_margin ==
    IF exported.tag = "csv" THEN exported.profit_margin[1] ELSE exported.profit_margin

\* C14 as stated: for every report, export_analysis with 'csv' and with
\* 'summary' completes and shows a cash-flow value and a profit-margin value
\* equal to net_cash_flow and gross_profit_margin of the report.
C14_ExportShowsEqualValues ==
    exported_report
    => /\ exported.tag \in {"csv", "summary"}
       /\ shown_cash_flow = 100 * report.financial_metrics.cash_flow.net_cash_flow
       /\ Eq(report.financial_metrics.profitability.gross_profit_margin,
             shown_margin, 1000)

\* C14 amended: for every report, export_analysis with 'csv' and with
\* 'summary' completes; the cash-flow value shown is net_cash_flow to the
\* cent, and the profit margin shown is gross_profit_margin to within half a
\* tenth of a percent.
C14_ExportShowsRoundedValues ==
    exported_report
    => LET m == report.financial_metrics.profitability.gross_profit_margin
       IN  /\ exported.tag \in {"csv", "summary"}
           /\ shown_cash_flow = 100 * report.financial_metrics.cash_flow.net_cash_flow
           /\ ~m.inf
           /\ 2 * Abs(shown_margin * m.den - 1000 * m.num) <= m.den

\* an exported report whose margin is not a whole number of tenths of a
\* percent and lies nearer the tenth above
C14_Witness ==
    /\ exported_report
    /\ exported.tag = "csv"
    /\ LET m == report.financial_metrics.profitability.gross_profit_margin
       IN  2 * ((1000 * m.num) % m.den) > m.den

\* cash flow and profitability succeeded and the trend or the anomaly
\* detection returned its error value
sibling_failed ==
    /\ returned
    /\ cash_flow.tag = "ok"
    /\ profitability.tag = "ok"
    /\ cash_flow_trend.tag = "error" \/ anomalies.tag = "error"

group_rank(item) ==
    CASE item.category = "alert" -> 1
      [] item.category = "improvement" -> 2
      [] item.category = "strategic" -> 3
      [] OTHER -> 0

\* C16: in the action_items of every report the items taken from the alerts
\* come first, then those taken from recommendations.immediate_actions, then
\* those taken from recommendations.strategic_recommendations, and each
\* group keeps the order of the list it was taken from.
C16_ActionItemsInPriorityOrder ==
    returned_report
    => LET items == report.action_items
           a == report.alerts.critical_alerts
           i == report.recommendations.immediate_actions
           s == report.recommendations.strategic_recommendations
       IN  /\ \A k \in 1..Len(items) : group_rank(items[k]) \in 1..3
           /\ \A j, k \in 1..Len(items) :
                 j < k => group_rank(items[j]) <= group_rank(items[k])
           /\ [k \in 1..Len(a) |-> items[k].action] = a
           /\ Len(items) = Len(a) + Len(i) + Len(s)
           /\ [k \in 1..Len(i) |-> items[Len(a) + k].action] = i
           /\ [k \in 1..Len(s) |-> items[Len(a) + Len(i) + k].action] = s

\* a report whose action items come from all three lists, the two
\* recommendation lists with several items each
C16_Witness ==
    /\ returned_report
    /\ Len(report.alerts.critical_alerts) >= 1
    /\ Len(report.recommendations.immediate_actions) >= 2
    /\ Len(report.recommendations.strategic_recommendations) >= 2

\* C17: under any interleaving of concurrent invocations, the report of
\* each invocation is the report the same request gives when it runs alone,
\* and INDUSTRY_BENCHMARKS is never modified.
C17_ConcurrentRunsIndependent ==
    /\ benchmark_table = INDUSTRY_BENCHMARKS
    /\ \A w \in DOMAIN workers :
          workers[w].pc = "done"
          => workers[w].report
                = run_alone(workers[w].file, workers[w].industry, workers[w].size)

\* every invocation has returned, two of them on different files and
\* industries, one a report and one an error response, while an unlisted
\* industry code was looked up
C17_Witness ==
    /\ DOMAIN workers # {}
    /\ \A w \in DOMAIN workers : workers[w].pc = "done"
    /\ \E v, w \in DOMAIN workers :
          /\ workers[v].file # workers[w].file
          /\ workers[v].industry = "unlisted"
          /\ workers[w].industry = "technology"
          /\ ~workers[v].report.error
          /\ workers[w].report.error

\* a GeminiFinancialAnalyzer function has returned
gemini_returned == gemini # NoResult /\ gemini.stage = "returned"

\* the model is unconfigured, raised, or answered a text json.loads rejects
model_failed == gemini.MODEL = "None" \/ attempt(gemini.response).raised

\* the keys of the mapping that name a column
ColumnKeys == {"date_column", "income_column", "expense_column",
               "amount_column", "category_column", "description_column"}

column_names == {PyStr(gemini.columns[i]) : i \in 1..Len(gemini.columns)}

\* what the three functions share when the model failed: no exception
\* reaches the caller, detect_column_mapping returns the keyword mapping,
\* analyze_financial_data a mapping with the one key analysis, and
\* generate_custom_insights returns a list whether the model failed or not
fallbacks_returned ==
    gemini_returned =>
       /\ ~gemini.result.propagated
       /\ gemini.fn = "generate_custom_insights"
          => gemini.result.value.py = "list"
       /\ model_failed /\ gemini.fn = "analyze_financial_data"
          => DOMAIN gemini.result.value = {"py", "analysis"}
       /\ model_failed /\ gemini.fn = "detect_column_mapping"
          => gemini.result.value = fallback_column_detection(gemini.columns)

\* C18 as stated: the functions return their fallbacks when the model
\* fails, and every non-null value of detect_column_mapping's fallback
\* mapping is one of the input column names.
C18_EveryFallbackValueIsAColumn ==
    /\ fallbacks_returned
    /\ gemini_returned /\ model_failed /\ gemini.fn = "detect_column_mapping"
       => \A k \in DOMAIN gemini.result.value :
             gemini.result.value[k] # PyNone
             => gemini.result.value[k] \in column_names

\* C18: the functions return their fallbacks when the model fails; in
\* detect_column_mapping's fallback mapping every non-null value under the
\* six *_column keys is one of the input column names, and the seventh
\* key, confidence, holds the text 'medium'.
C18_FallbackColumnsAreColumns ==
    /\ fallbacks_returned
    /\ gemini_returned /\ model_failed /\ gemini.fn = "detect_column_mapping"
       => /\ \A k \in ColumnKeys :
                gemini.result.value[k] # PyNone
                => gemini.result.value[k] \in column_names
          /\ DOMAIN gemini.result.value = ColumnKeys \cup {"confidence"}
          /\ gemini.result.value.confidence = PyStr(t_medium)

\* the configured model answered a text that is no JSON document, and
\* detect_column_mapping returned a mapping that names a date column and an
\* amount column and leaves the income column null
C18_Witness ==
    /\ gemini_returned
    /\ gemini.fn = "detect_column_mapping"
    /\ gemini.MODEL # "None"
    /\ gemini.response.kind = "text"
    /\ attempt(gemini.response).raised
    /\ gemini.result.value.date_column = PyStr(h_TransDate)
    /\ gemini.result.value.amount_column = PyStr(h_Total)
    /\ gemini.result.value.income_column = PyNone

scored == pc \in {"anomalies", "benchmark", "insights", "recommendations",
                  "alerts", "assemble"} /\ health_score.tag = "ok"

\* 20 if net cash flow > 0, plus 10 more if additionally the cash-flow
\* ratio > 1.2; nothing for an error value
cash_flow_contribution ==
    IF cash_flow.tag # "ok" THEN 0
    ELSE IF cash_flow.net_cash_flow > 0
         THEN 20 + (IF Gt(cash_flow.cash_flow_ratio, 12, 10) THEN 10 ELSE 0)
         ELSE 0

\* 30 if gross margin > 0.30, else 20 if > 0.15, else 10 if > 0.05
margin_contribution ==
    IF profitability.tag # "ok" THEN 0
    ELSE IF Gt(profitability.gross_profit_margin, 30, 100) THEN 30
    ELSE IF Gt(profitability.gross_profit_margin, 15, 100) THEN 20
    ELSE IF Gt(profitability.gross_profit_margin, 5, 100) THEN 10
    ELSE 0

\* 15 if trend slope > 0, plus 10 more if additionally R^2 > 0.7
trend_contribution ==
    IF cash_flow_trend.tag # "ok" THEN 0
    ELSE IF Gt(cash_flow_trend.trend_slope, 0, 1)
         THEN 15 + (IF Gt(cash_flow_trend.r_squared, 7, 10) THEN 10 ELSE 0)
         ELSE 0

\* volatility < mean(|total income|, |total expenses|) / k, as
\* (2 * k * volatility)^2 < (|total income| + |total expenses|)^2; the
\* totals of an error value count as 0
volatility_below_mean_over(k) ==
    LET spread == IF cash_flow.tag = "ok"
                  THEN Abs(cash_flow.total_income) + Abs(cash_flow.total_expenses)
                  ELSE 0
    IN  4 * k * k * cash_flow_trend.volatility_sq.num
           < spread * spread * cash_flow_trend.volatility_sq.den

\* 15 if volatility < 10% of the mean of the totals, else 10 if < 20%
consistency_contribution ==
    IF cash_flow_trend.tag # "ok" THEN 0
    ELSE IF volatility_below_mean_over(10) THEN 15
    ELSE IF volatility_below_mean_over(5) THEN 10
    ELSE 0

\* C20: the health score is the sum of the cash-flow, margin, trend and
\* consistency contributions of the cash flow, profitability and trend
\* results, an error value among them contributing 0 to its terms, and
\* get_financial_health_score, once reached, does not raise.
C20_HealthScoreIsSumOfContributions ==
    /\ scored =>
          health_score.score = cash_flow_contribution + margin_contribution
                               + trend_contribution + consistency_contribution
    /\ pc = "health" =>
          ~(cash_flow_raises(cols, rows) \/ profitability_raises(cols, rows))

\* a score of 60 reached with the cash flow and the margin at their full
\* points while the trend is an error value
C20_Witness ==
    /\ scored
    /\ cash_flow_trend.tag = "error"
    /\ cash_flow_contribution = 30
    /\ margin_contribution = 30
    /\ health_score.score = 60

\* the header of the uploaded file after line 22 and _standardize_columns
resolved_header ==
    standardize_columns([j \in 1..Len(src_cols) |-> NormalizeHeader(src_cols[j])])

\* amount and category are resolved, and neither income nor expenses nor
\* the revenue that line 46 copies into income
derived_only ==
    /\ HasCol(resolved_header, c_amount) /\ HasCol(resolved_header, c_category)
    /\ ~HasCol(resolved_header, c_income) /\ ~HasCol(resolved_header, c_expenses)
    /\ ~HasCol(resolved_header, c_revenue)

\* row i of the file has a category text with an income keyword and an
\* expense keyword, a date that parses (if there is a date column) and an
\* amount that is a number once the currency signs are stripped
counted_twice(i) ==
    LET category == Cell(resolved_header, src_rows[i], c_category)
    IN  /\ category.t = "str"
        /\ ContainsAny(income_keywords, Lower(category.s))
        /\ ContainsAny(expense_keywords, Lower(category.s))
        /\ CleanNumeric(Cell(resolved_header, src_rows[i], c_amount)).t = "num"
        /\ HasCol(resolved_header, c_date)
           => ParseDate(Cell(resolved_header, src_rows[i], c_date)).t = "date"

\* the file without its row i
without_row(i) ==
    [cols |-> src_cols,
     rows |-> SubSeq(src_rows, 1, i - 1) \o SubSeq(src_rows, i + 1, Len(src_rows))]

\* get_cash_flow() of FinancialData(file), NoResult if either raises
cash_flow_of(file) ==
    LET d == construct(file)
    IN  IF d.raised THEN NoResult
        ELSE IF cash_flow_raises(d.cols, d.rows) THEN NoResult
        ELSE get_cash_flow(d.cols, d.rows)

\* C21: in a file with amount and category and no income or expenses
\* column, a row whose category holds an income keyword and an expense
\* keyword adds its amount to total_income and to total_expenses and
\* nothing to net_cash_flow: without the row both totals are lower by the
\* amount and the net cash flow is the same.
C21_RowOfBothKeywordsCountedTwice ==
    (pc = "profitability" /\ derived_only /\ cash_flow.tag = "ok")
    => \A i \in 1..Len(src_rows) :
          counted_twice(i) =>
             LET rest == cash_flow_of(without_row(i))
                 a    == CleanNumeric(Cell(resolved_header, src_rows[i], c_amount)).n
             IN  rest.tag = "ok" =>
                    /\ cash_flow.total_income = rest.total_income + a
                    /\ cash_flow.total_expenses = rest.total_expenses + a
                    /\ cash_flow.net_cash_flow = rest.net_cash_flow

\* get_cash_flow has summed a file of two rows, 'sales cost' with the
\* amount $1,200 and 'Office Rent' with 50: both totals are 1200
C21_Witness ==
    /\ pc = "profitability" /\ derived_only /\ cash_flow.tag = "ok"
    /\ Len(src_rows) = 2
    /\ counted_twice(1) /\ ~counted_twice(2)
    /\ cash_flow_of(without_row(1)).tag = "ok"
    /\ cash_flow.total_income = 1200
    /\ cash_flow.total_expenses = 1200
    /\ cash_flow.net_cash_flow = 0

\* C22: the populated value of detect_anomalies has anomaly_count = |F|,
\* anomaly_percentage = 100 |F| / n and total_anomaly_value = the sum of
\* |amount| over the flagged rows F.
C22_AnomalyTotalIsAbsolute ==
    (pc = "benchmark" /\ anomalies.tag = "ok")
    => /\ anomalies.anomaly_count = Len(anomalies.anomaly_indices)
       /\ anomalies.anomaly_percentage
             = Fin(100 * Len(anomalies.anomaly_indices), Len(rows))
       /\ anomalies.total_anomaly_value
             = SumSeq([k \in 1..Len(anomalies.anomaly_indices) |->
                         Abs(Cell(cols, rows[anomalies.anomaly_indices[k]], c_amount).n)])

\* compare_to_industry has returned its comparison
compared == pc = "insights" /\ benchmark_comparison # NoResult

Percentiles == {90, 75, 50, 25}

\* C23: in the comparison, profit margin and cash-flow ratio are 'above'
\* exactly when the value is strictly greater than the benchmark, the
\* expense ratio is 'above' exactly when the value is strictly lower than
\* the benchmark, the difference is positive exactly when the label is
\* 'above', and every percentile is one of 90, 75, 50, 25.
C23_BenchmarkLabels ==
    compared =>
       /\ \A m \in {"profit_margin", "cash_flow_ratio"} :
             LET c == benchmark_comparison[m]
             IN  c.present =>
                    /\ c.performance = "above"
                          <=> Gt(c.your_performance, c.industry_benchmark, 100)
                    /\ Gt(c.difference, 0, 1) <=> c.performance = "above"
                    /\ c.performance \in {"above", "below"}
                    /\ c.percentile \in Percentiles
       /\ LET c == benchmark_comparison.expense_ratio
          IN  c.present =>
                 /\ c.performance = "above"
                       <=> Lt(c.your_performance, c.industry_benchmark, 100)
                 /\ Gt(c.difference, 0, 1) <=> c.performance = "above"
                 /\ c.performance \in {"above", "below"}
                 /\ c.percentile \in Percentiles

\* against the technology benchmarks, an expense ratio that is lower than
\* its benchmark and so 'above', with the 90th percentile
C23_Witness ==
    /\ compared
    /\ user_industry = "technology"
    /\ benchmark_comparison.expense_ratio.present
    /\ benchmark_comparison.expense_ratio.performance = "above"
    /\ benchmark_comparison.expense_ratio.percentile = 90
    /\ Lt(benchmark_comparison.expense_ratio.your_performance, 65, 100)
    /\ Gt(benchmark_comparison.expense_ratio.your_performance, 0, 1)

\* a = b for two fractions
SameFraction(a, b) == ~a.inf /\ ~b.inf /\ a.num * b.den = b.num * a.den

\* the report holds a trend analysis that succeeded
trend_reported ==
    returned_report /\ report.financial_metrics.trend_analysis.tag = "ok"

\* f is the line of slope s through the monthly series y (at month indices
\* 0 .. n-1) read at the indices n, n+1, ...: consecutive values differ by
\* s, and the residuals of y against the line sum to zero
ContinuesLine(f, s, y) ==
    LET n == Len(y)
    IN  /\ \A k \in 1..(Len(f) - 1) :
              SameFraction(f[k + 1],
                           Fin(f[k].num * s.den + s.num * f[k].den, f[k].den * s.den))
        /\ 2 * SumSeq(y) * f[1].den * s.den + s.num * f[1].den * n * (n + 1)
              = 2 * n * f[1].num * s.den

\* C24: when the trend analysis succeeded, its forecast has 6 values that
\* continue the fitted line at the month indices n .. n+5, the realistic
\* scenario of the report is that forecast, and the optimistic and
\* pessimistic values are 1.2 and 0.8 times the realistic ones.
C24_ForecastContinuesLine ==
    trend_reported =>
       LET tr == report.financial_metrics.trend_analysis
           sc == report.forecast.scenario_analysis
       IN  /\ Len(tr.forecast) = 6
           /\ ContinuesLine(tr.forecast, tr.trend_slope, NetSeries(tr.monthly_data))
           /\ report.forecast.tag = "ok"
           /\ report.forecast.next_6_months = tr.forecast
           /\ sc.realistic = tr.forecast
           /\ Len(sc.optimistic) = 6 /\ Len(sc.pessimistic) = 6
           /\ \A i \in 1..6 :
                 /\ SameFraction(sc.optimistic[i],
                                 Fin(12 * sc.realistic[i].num, 10 * sc.realistic[i].den))
                 /\ SameFraction(sc.pessimistic[i],
                                 Fin(8 * sc.realistic[i].num, 10 * sc.realistic[i].den))

\* a report over two months whose fitted line rises: the first forecast
\* value lies above the last month's net cash flow
C24_Witness ==
    /\ trend_reported
    /\ Len(report.financial_metrics.trend_analysis.monthly_data) = 2
    /\ report.financial_metrics.trend_analysis.trend_slope.num > 0
    /\ Gt(report.financial_metrics.trend_analysis.forecast[1],
          report.financial_metrics.trend_analysis.monthly_data[2].net_cash_flow, 1)

\* the metric dictionaries create_financial_alerts can be handed
AlertCashFlows ==
    {[tag |-> "error"]} \cup
    {[tag |-> "ok", net_cash_flow |-> n, cash_flow_ratio |-> r] :
        n \in {-2000, 0, 20000},
        r \in {Fin(1, 2), Fin(2, 1)}}
AlertMargins ==
    {[tag |-> "error"]} \cup
    {[tag |-> "ok", gross_profit_margin |-> m] :
        m \in {Fin(1, 20), Fin(1, 5), Fin(1, 2)}}
AlertAnomalies ==
    {[tag |-> "error"]} \cup {[tag |-> "ok", anomaly_count |-> c] : c \in {0, 1}}
AlertScores ==
    {[tag |-> "error"]} \cup {[tag |-> "ok", score |-> v] : v \in {39, 40}}

\* the alerts stay within two critical and three warnings, with a risk
\* of high, low or minimal
within_counts(a) ==
    /\ Len(a.critical_alerts) <= 2
    /\ Len(a.warning_alerts) <= 3
    /\ a.severity_levels.critical = Len(a.critical_alerts)
    /\ a.severity_levels.warning = Len(a.warning_alerts)
    /\ a.severity_levels.overall_risk \in {"high", "low", "minimal"}

\* C25: whatever the metrics, create_financial_alerts gives at most 2
\* critical alerts and at most 3 warning alerts, so the overall risk is
\* 'high', 'low' or 'minimal' and never 'very_high' or 'medium'; this holds
\* of the alerts of every invocation and of every combination of metric
\* dictionaries the function can be handed
C25_RiskIsHighLowOrMinimal ==
    /\ alerts # NoResult => within_counts(alerts)
    /\ pc = "alerts" =>
          \A cf \in AlertCashFlows, pm \in AlertMargins,
             an \in AlertAnomalies, hs \in AlertScores :
                within_counts(create_financial_alerts(cf, pm, an, hs))

\* an invocation whose alerts hold all three warnings beside a critical one
C25_Witness ==
    /\ alerts # NoResult
    /\ alerts.warning_alerts = <<"liquidity", "profitability", "anomalies">>
    /\ Len(alerts.critical_alerts) >= 1
    /\ alerts.severity_levels.overall_risk = "high"

\* a <= b for two finite fractions
AtMost(a, b) == a.num * b.den <= b.num * a.den

\* the report holds a forecast with its three scenarios
forecast_reported == returned_report /\ report.forecast.tag = "ok"

\* C26: in every forecast of a report and for every period k,
\* pessimistic[k] <= realistic[k] <= optimistic[k], also when the forecast
\* value is negative
C26_ScenariosAreOrdered ==
    forecast_reported =>
        LET sc == report.forecast.scenario_analysis
        IN  \A k \in 1..Len(sc.realistic) :
                /\ AtMost(sc.pessimistic[k], sc.realistic[k])
                /\ AtMost(sc.realistic[k], sc.optimistic[k])

\* _standardize_columns has run on the header of the uploaded file
standardized == pc \notin {"read", "standardize"}

\* C27: once the header is normalised, no two columns of the data frame
\* share a name, also when the file holds a column of a canonical name
\* beside a column matching that name's keywords
C27_ColumnNamesAreDistinct ==
    standardized =>
        \A i, j \in 1..Len(cols) : cols[i] = cols[j] => i = j

\* get_cash_flow_trend has just run on a dated data frame with rows and
\* something to sum
trend_computed ==
    /\ pc = "health"
    /\ HasCol(cols, c_date)
    /\ agg_cols(cols) # {}
    /\ rows # <<>>

\* the calendar months from the earliest to the latest date of the data frame
first_month == MinOf(Months(cols, rows))
last_month  == MaxOf(Months(cols, rows))

Lists(s, m) == \E k \in 1..Len(s) : s[k] = m

\* C29: in every report, the executive summary lists 'Negative cash flow'
\* under critical_issues exactly when net_cash_flow < 0 and 'Positive cash
\* flow' under key_findings exactly when net_cash_flow > 0; a net cash flow
\* of 0 gives neither
C29_CashFlowEntryFollowsSign ==
    returned_report /\ report.financial_metrics.cash_flow.tag = "ok" =>
        LET net == report.financial_metrics.cash_flow.net_cash_flow
            summary == report.executive_summary
        IN  /\ Lists(summary.critical_issues, "Negative cash flow") <=> net < 0
            /\ Lists(summary.key_findings, "Positive cash flow") <=> net > 0

\* a later step of the invocation has called get_cash_flow() again
recomputed == pc \in {"f_benchmark", "f_done"}

\* C30: within one invocation, the cash flow that get_financial_health_score
\* and compare_to_industry compute again, after the date sort, equals the
\* cash flow first computed and reported in financial_metrics
C30_RecomputedCashFlowIsReported ==
    recomputed => cash_flow_again = cash_flow

====
